---- MODULE Spec2Model ----
(***************************************************************************)
(* Model of the matching and session-relay engine of the chat server:      *)
(* the matching service (onlineUsers, textChatUsers, findMatchingUser,     *)
(* createRoom, leaveRoom), the socket handlers of chatSocket and the       *)
(* input validators.  One action per socket event handler; every handler   *)
(* runs to completion, but for report-user, which is async: one action for *)
(* its part up to the awaited save, one for its part after it.  The video  *)
(* chat page of the client (VideoChat, useWebRTC) is modelled with the     *)
(* server for the negotiation that follows a match.                        *)
(***************************************************************************)
EXTENDS Integers, Sequences, FiniteSets, TLC

VARIABLES
    onlineUsers,    \* the Map socketId -> user, as the sequence of its entries in insertion order
    textChatUsers,  \* the Set of socket ids that joined the text chat
    rooms,          \* transport rooms: room name -> set of member socket ids
    used,           \* socket ids the transport has handed out so far (ids are never reused)
    steps,          \* the number of events handled so far
    out,            \* the events emitted by the handler that ran last, in emission order
    last,           \* the event handled last: its name, socket, payload and what the handler found
    pending,        \* the report-user handlers suspended at "await report.save()", oldest first
    clients         \* the video chat page of each socket that has one: its peer connection, roomIdRef,
                    \* isWaiting, its auto-search timer and the events it has yet to handle

vars == <<onlineUsers, textChatUsers, rooms, used, steps, out, last, pending, clients>>

(***************************************************************************)
(* Bounds and input domains                                                *)
(***************************************************************************)
\* socket ids the transport assigns, in the order it hands them out
IdOrder == <<"a", "b", "c">>
Ids == { IdOrder[i] : i \in DOMAIN IdOrder }

\* the number of events a run handles
MaxEvents == 7

\* JS null / undefined / "" : every test the code makes on them is a truthiness test
Null == ""

TEXT_CHAT == "text-chat"
SKIP == "skip"
DISCONNECTED == "disconnected"
MAX_INTERESTS == 10
MAX_MESSAGE_LENGTH == 500
MAX_USERNAME_LENGTH == 50
MIN_USERNAME_LENGTH == 3

\* strings that go through trim() are sequences of characters
Music == <<"m">>
Art == <<"a">>
PaddedMusic == <<" ", "m", " ">>
Blank == <<" ">>

Str(s) == [str |-> s]
Num(n) == [num |-> n]
Arr(items) == [kind |-> "array", items |-> items]
Undefined == [kind |-> "undefined"]
NotArray == [kind |-> "string"]

\* addUser called without userData: userData = {}
NoData == [f \in {} |-> Null]

\* `User${Math.floor(Math.random() * 1000)}`: the generated names are told apart by
\* the number drawn
GeneratedName(rnd) == "User" \o ToString(rnd)

\* the numbers Math.random() gives the connection handler; the handlers copy the
\* username into payloads and never test it
ConnectionDraws == {7}

\* an interests list one entry over the limit
TooMany == [i \in 1..(MAX_INTERESTS + 1) |-> Str(Music)]

\* the interests a join-room payload may carry
InterestInputs ==
    { Undefined,
      Arr(<<Str(PaddedMusic), Str(Blank), Num(7)>>),
      Arr(TooMany) }

\* a room id derived from the first socket id only
PairRoomId_FirstOnly(socketId1, socketId2) == "chat-" \o socketId1

\* the room id derived by createRoom
PairRoomId(socketId1, socketId2) == "chat-" \o socketId1 \o "-" \o socketId2

PairRooms == { PairRoomId(x, y) : x \in Ids, y \in Ids } \ { PairRoomId(x, x) : x \in Ids }

\* a fresh id is the next of IdOrder
NextId(u) == IdOrder[Cardinality(u) + 1]

RoomNames == Ids \cup {TEXT_CHAT} \cup PairRooms

\* the roomId a client may put in a payload: none, the text chat, or a pair room
\* that has members (its own or that of other users)
RoomInputs(rm, socketId) ==
    {Null, TEXT_CHAT} \cup { r \in PairRooms : rm[r] # {} }

\* the reason a leave-room payload may carry; the handler reads it only when the
\* payload names a room other than the text chat
ReasonInputs(roomId) ==
    IF roomId # Null /\ roomId # TEXT_CHAT THEN {Null, SKIP} ELSE {Null}

(***************************************************************************)
(* validators.js                                                           *)
(***************************************************************************)
\* the characters String.prototype.trim() removes (of those the inputs use)
IsSpace(ch) == ch \in {" ", "\t", "\n"}

RECURSIVE TrimLeft(_)
TrimLeft(s) == IF s # <<>> /\ IsSpace(Head(s)) THEN TrimLeft(Tail(s)) ELSE s

RECURSIVE TrimRight(_)
TrimRight(s) ==
    IF s # <<>> /\ IsSpace(s[Len(s)]) THEN TrimRight(SubSeq(s, 1, Len(s) - 1)) ELSE s

Trim(s) == TrimRight(TrimLeft(s))

IsString(v) == "str" \in DOMAIN v

\* a filter that keeps the strings with text and does not trim them
RECURSIVE FilterTrim_NoTrim(_)
FilterTrim_NoTrim(items) ==
    IF items = <<>> THEN <<>>
    ELSE LET i == Head(items)
             rest == FilterTrim_NoTrim(Tail(items))
         IN IF IsString(i) /\ Len(Trim(i.str)) > 0 THEN <<i.str>> \o rest ELSE rest

\* interests.filter(i => typeof i === 'string' && i.trim().length > 0).map(i => i.trim())
RECURSIVE FilterTrim(_)
FilterTrim(items) ==
    IF items = <<>> THEN <<>>
    ELSE LET i == Head(items)
             rest == FilterTrim(Tail(items))
         IN IF IsString(i) /\ Len(Trim(i.str)) > 0 THEN <<Trim(i.str)>> \o rest ELSE rest

\* !v is false
Truthy(v) ==
    IF IsString(v) THEN Len(v.str) > 0
    ELSE IF "num" \in DOMAIN v THEN v.num # 0
    ELSE v.kind # "undefined"

\* a validateMessage that lets a blank text through
validateMessage_AcceptsBlank(message) ==
    IF ~Truthy(message) \/ ~IsString(message)
    THEN [isValid |-> FALSE, error |-> "Message must be a non-empty string"]
    ELSE IF Len(Trim(message.str)) > MAX_MESSAGE_LENGTH
    THEN [isValid |-> FALSE, error |-> "Message too long"]
    ELSE [isValid |-> TRUE, message |-> Trim(message.str)]

\* a validateMessage that measures the text before trimming it
validateMessage_RawLength(message) ==
    IF ~Truthy(message) \/ ~IsString(message)
    THEN [isValid |-> FALSE, error |-> "Message must be a non-empty string"]
    ELSE IF Len(Trim(message.str)) = 0
    THEN [isValid |-> FALSE, error |-> "Message cannot be empty"]
    ELSE IF Len(message.str) > MAX_MESSAGE_LENGTH
    THEN [isValid |-> FALSE, error |-> "Message too long"]
    ELSE [isValid |-> TRUE, message |-> Trim(message.str)]

validateMessage(message) ==
    IF ~Truthy(message) \/ ~IsString(message)
    THEN [isValid |-> FALSE, error |-> "Message must be a non-empty string"]
    ELSE LET trimmedMessage == Trim(message.str)
         IN IF Len(trimmedMessage) = 0
            THEN [isValid |-> FALSE, error |-> "Message cannot be empty"]
            ELSE IF Len(trimmedMessage) > MAX_MESSAGE_LENGTH
            THEN [isValid |-> FALSE, error |-> "Message too long"]
            ELSE [isValid |-> TRUE, message |-> trimmedMessage]

\* a validateUsername that turns down a name of exactly MIN_USERNAME_LENGTH
validateUsername_MinExclusive(username) ==
    IF ~Truthy(username) \/ ~IsString(username)
    THEN [isValid |-> FALSE, error |-> "Username must be a string"]
    ELSE IF Len(Trim(username.str)) <= MIN_USERNAME_LENGTH
    THEN [isValid |-> FALSE, error |-> "Username too short"]
    ELSE IF Len(Trim(username.str)) > MAX_USERNAME_LENGTH
    THEN [isValid |-> FALSE, error |-> "Username too long"]
    ELSE [isValid |-> TRUE, username |-> Trim(username.str)]

validateUsername(username) ==
    IF ~Truthy(username) \/ ~IsString(username)
    THEN [isValid |-> FALSE, error |-> "Username must be a string"]
    ELSE LET trimmedUsername == Trim(username.str)
         IN IF Len(trimmedUsername) < MIN_USERNAME_LENGTH
            THEN [isValid |-> FALSE, error |-> "Username too short"]
            ELSE IF Len(trimmedUsername) > MAX_USERNAME_LENGTH
            THEN [isValid |-> FALSE, error |-> "Username too long"]
            ELSE [isValid |-> TRUE, username |-> trimmedUsername]

\* a validateInterests that keeps the first MAX_INTERESTS entries of a longer list
validateInterests_Truncates(interests) ==
    IF interests.kind = "undefined" THEN [isValid |-> TRUE, interests |-> <<>>]
    ELSE IF interests.kind # "array" THEN [isValid |-> FALSE, interests |-> <<>>]
    ELSE IF Len(interests.items) > MAX_INTERESTS
    THEN [isValid |-> TRUE, interests |-> FilterTrim(SubSeq(interests.items, 1, MAX_INTERESTS))]
    ELSE [isValid |-> TRUE, interests |-> FilterTrim(interests.items)]

validateInterests(interests) ==
    IF interests.kind = "undefined" THEN [isValid |-> TRUE, interests |-> <<>>]
    ELSE IF interests.kind # "array" THEN [isValid |-> FALSE, interests |-> <<>>]
    ELSE IF Len(interests.items) > MAX_INTERESTS THEN [isValid |-> FALSE, interests |-> <<>>]
    ELSE [isValid |-> TRUE, interests |-> FilterTrim(interests.items)]

(***************************************************************************)
(* matchingService                                                         *)
(***************************************************************************)
Range(s) == { s[i] : i \in DOMAIN s }

RegisteredIds(reg) == { reg[i].id : i \in DOMAIN reg }

HasUser(reg, socketId) == socketId \in RegisteredIds(reg)

IndexOf(reg, socketId) == CHOOSE i \in DOMAIN reg : reg[i].id = socketId

getUser(reg, socketId) == reg[IndexOf(reg, socketId)]

\* the entry addUser builds: the defaults, then the fields of userData over them
\* ({ interests: userData.interests || [], roomId: null, username, ...userData });
\* rnd is the number Math.random() gave; a userData that has interests has an array
NewEntry(socketId, userData, rnd) ==
    LET username == IF "username" \in DOMAIN userData /\ userData.username # Null
                    THEN userData.username
                    ELSE GeneratedName(rnd)
        defaults == [id |-> socketId,
                     interests |-> IF "interests" \in DOMAIN userData
                                   THEN userData.interests ELSE <<>>,
                     roomId |-> Null,
                     username |-> username]
    IN [f \in DOMAIN defaults \cup DOMAIN userData |->
           IF f \in DOMAIN userData THEN userData[f] ELSE defaults[f]]

\* onlineUsers.set(socketId, entry): a present key keeps its place in the Map's order
addUser(reg, socketId, userData, rnd) ==
    IF HasUser(reg, socketId)
    THEN [i \in DOMAIN reg |->
            IF reg[i].id = socketId THEN NewEntry(socketId, userData, rnd) ELSE reg[i]]
    ELSE Append(reg, NewEntry(socketId, userData, rnd))

\* a removeUser that also clears the room of everyone who shared the removed user's
removeUser_ClearsPeers(reg, socketId) ==
    LET gone == SelectSeq(reg, LAMBDA u : u.id = socketId)
        kept == SelectSeq(reg, LAMBDA u : u.id # socketId)
    IN [i \in DOMAIN kept |->
          IF gone # <<>> /\ kept[i].roomId # Null /\ kept[i].roomId = gone[1].roomId
          THEN [kept[i] EXCEPT !.roomId = Null]
          ELSE kept[i]]

removeUser(reg, socketId) == SelectSeq(reg, LAMBDA u : u.id # socketId)

\* an updateUser that makes an entry of the updates when the id has none
updateUser_Upserts(reg, socketId, updates) ==
    IF HasUser(reg, socketId)
    THEN [i \in DOMAIN reg |->
            IF reg[i].id = socketId
            THEN [f \in DOMAIN reg[i] |-> IF f \in DOMAIN updates THEN updates[f] ELSE reg[i][f]]
            ELSE reg[i]]
    ELSE Append(reg, [id |-> socketId] @@ updates)

\* Object.assign(user, updates): the fields of updates replace the user's
updateUser(reg, socketId, updates) ==
    [i \in DOMAIN reg |->
        IF reg[i].id = socketId
        THEN [f \in DOMAIN reg[i] |-> IF f \in DOMAIN updates THEN updates[f] ELSE reg[i][f]]
        ELSE reg[i]]

\* a count that is one more than the registry holds
getOnlineUserCount_OffByOne(reg) == Len(reg) + 1

getOnlineUserCount(reg) == Len(reg)

\* an addToTextChat that takes in every socket id, registered or not
addToTextChat_EveryId(tc, socketId) == tc \cup Ids

addToTextChat(tc, socketId) == tc \cup {socketId}

isInTextChat(tc, socketId) == socketId \in tc

\* user.interests.filter(i => interests && interests.includes(i))
commonInterests(userInterests, interests) ==
    SelectSeq(userInterests, LAMBDA i : i \in Range(interests))

\* a first pass that takes any idle user, shared interest or not
FirstPassOk_NoCommonCheck(u, socketId, interests) ==
    /\ u.id # socketId
    /\ u.roomId = Null

\* the condition of the first pass on one entry
FirstPassOk(u, socketId, interests) ==
    /\ u.id # socketId
    /\ u.roomId = Null
    /\ Len(u.interests) > 0
    /\ Len(commonInterests(u.interests, interests)) > 0

\* a second pass that forgets the "no room assigned" test
SecondPassOk_NoIdleCheck(u, socketId) == u.id # socketId

\* a second pass that wants the candidate to have interests
SecondPassOk_NeedsInterests(u, socketId) ==
    /\ u.id # socketId
    /\ u.roomId = Null
    /\ Len(u.interests) > 0

\* the condition of the second pass on one entry
SecondPassOk(u, socketId) ==
    /\ u.id # socketId
    /\ u.roomId = Null

\* the first entry, in the Map's iteration order, that a pass accepts
FirstPass(reg, socketId, interests) ==
    LET hits == { i \in DOMAIN reg : FirstPassOk(reg[i], socketId, interests) }
    IN IF hits = {} THEN Null
       ELSE reg[CHOOSE i \in hits : \A j \in hits : i <= j].id

\* a second pass that returns the last entry it accepts, not the first
SecondPass_LastFit(reg, socketId) ==
    LET hits == { i \in DOMAIN reg : SecondPassOk(reg[i], socketId) }
    IN IF hits = {} THEN Null
       ELSE reg[CHOOSE i \in hits : \A j \in hits : i >= j].id

SecondPass(reg, socketId) ==
    LET hits == { i \in DOMAIN reg : SecondPassOk(reg[i], socketId) }
    IN IF hits = {} THEN Null
       ELSE reg[CHOOSE i \in hits : \A j \in hits : i <= j].id

\* a search that finds nobody for a requester that holds a room id
findMatchingUser_IdleRequesterOnly(reg, socketId, interests) ==
    IF HasUser(reg, socketId) /\ getUser(reg, socketId).roomId # Null
    THEN Null
    ELSE IF FirstPass(reg, socketId, interests) # Null
    THEN FirstPass(reg, socketId, interests)
    ELSE SecondPass(reg, socketId)

findMatchingUser(reg, socketId, interests) ==
    LET first == FirstPass(reg, socketId, interests)
    IN IF first # Null THEN first ELSE SecondPass(reg, socketId)

\* a createRoom that assigns the room to the first user only
createRoom_FirstOnly(reg, socketId1, socketId2) ==
    [i \in DOMAIN reg |->
        IF reg[i].id = socketId1
        THEN [reg[i] EXCEPT !.roomId = PairRoomId(socketId1, socketId2)]
        ELSE reg[i]]

createRoom(reg, socketId1, socketId2) ==
    [i \in DOMAIN reg |->
        IF reg[i].id \in {socketId1, socketId2}
        THEN [reg[i] EXCEPT !.roomId = PairRoomId(socketId1, socketId2)]
        ELSE reg[i]]

\* a leaveRoom that also clears everyone who shares the leaver's room
leaveRoom_ClearsPeers(reg, socketId) ==
    [i \in DOMAIN reg |->
        IF HasUser(reg, socketId) /\ reg[i].roomId # Null
           /\ reg[i].roomId = getUser(reg, socketId).roomId
        THEN [reg[i] EXCEPT !.roomId = Null]
        ELSE reg[i]]

\* a leaveRoom that clears nothing
leaveRoom_KeepsRoom(reg, socketId) == reg

leaveRoom(reg, socketId) ==
    [i \in DOMAIN reg |->
        IF reg[i].id = socketId /\ reg[i].roomId # Null
        THEN [reg[i] EXCEPT !.roomId = Null]
        ELSE reg[i]]

(***************************************************************************)
(* transport: rooms and emission                                           *)
(***************************************************************************)
SocketJoin(rm, socketId, room) ==
    IF room \in DOMAIN rm THEN [rm EXCEPT ![room] = @ \cup {socketId}] ELSE rm

SocketLeave(rm, socketId, room) ==
    IF room \in DOMAIN rm THEN [rm EXCEPT ![room] = @ \ {socketId}] ELSE rm

\* the transport takes a closing socket out of every room before 'disconnect' fires
LeaveAll(rm, socketId) == [r \in DOMAIN rm |-> rm[r] \ {socketId}]

Members(rm, room) == IF room \in DOMAIN rm THEN rm[room] ELSE {}

\* io.to(room).emit, socket.to(room).emit, socket.emit, io.emit: who receives
IoTo(rm, room) == Members(rm, room)
\* a socket.to(room) that does not leave the sender out
SocketTo_WithSender(rm, socketId, room) == Members(rm, room)

SocketTo(rm, socketId, room) == Members(rm, room) \ {socketId}

\* match-found events with the initiator flag on the wrong side
MatchFoundEvents_MatchInitiates(rm, socketId, matchId, newRoomId, interests, matchInterests) ==
    << [ev |-> "match-found", to |-> matchId, rcpts |-> IoTo(rm, matchId),
        roomId |-> newRoomId, initiator |-> TRUE, interests |-> interests],
       [ev |-> "match-found", to |-> socketId, rcpts |-> {socketId},
        roomId |-> newRoomId, initiator |-> FALSE, interests |-> matchInterests] >>

\* match-found events that name both sides initiator
MatchFoundEvents_BothInitiate(rm, socketId, matchId, newRoomId, interests, matchInterests) ==
    << [ev |-> "match-found", to |-> matchId, rcpts |-> IoTo(rm, matchId),
        roomId |-> newRoomId, initiator |-> TRUE, interests |-> interests],
       [ev |-> "match-found", to |-> socketId, rcpts |-> {socketId},
        roomId |-> newRoomId, initiator |-> TRUE, interests |-> matchInterests] >>

\* match-found events in which each side is sent its own interests
MatchFoundEvents_OwnInterests(rm, socketId, matchId, newRoomId, interests, matchInterests) ==
    << [ev |-> "match-found", to |-> matchId, rcpts |-> IoTo(rm, matchId),
        roomId |-> newRoomId, initiator |-> FALSE, interests |-> matchInterests],
       [ev |-> "match-found", to |-> socketId, rcpts |-> {socketId},
        roomId |-> newRoomId, initiator |-> TRUE, interests |-> interests] >>

\* the two match-found events of a pairing: io.to(matchId).emit, then socket.emit
MatchFoundEvents(rm, socketId, matchId, newRoomId, interests, matchInterests) ==
    << [ev |-> "match-found", to |-> matchId, rcpts |-> IoTo(rm, matchId),
        roomId |-> newRoomId, initiator |-> FALSE, interests |-> interests],
       [ev |-> "match-found", to |-> socketId, rcpts |-> {socketId},
        roomId |-> newRoomId, initiator |-> TRUE, interests |-> matchInterests] >>

\* a disconnect notice to the pair room that carries no reason
UserLeftOnDisconnect_NoReason(rm, tc, socketId, roomId) ==
    (IF roomId # Null /\ roomId # TEXT_CHAT
     THEN << [ev |-> "user-left", to |-> roomId, rcpts |-> IoTo(rm, roomId),
              reason |-> Null] >>
     ELSE <<>>)
    \o
    (IF isInTextChat(tc, socketId)
     THEN << [ev |-> "user-left", to |-> TEXT_CHAT, rcpts |-> IoTo(rm, TEXT_CHAT),
              reason |-> Null] >>
     ELSE <<>>)

\* the user-left events of the disconnect handler: to the user's room if it is
\* not the text chat, then to the text chat if the user is in textChatUsers
UserLeftOnDisconnect(rm, tc, socketId, roomId) ==
    (IF roomId # Null /\ roomId # TEXT_CHAT
     THEN << [ev |-> "user-left", to |-> roomId, rcpts |-> IoTo(rm, roomId),
              reason |-> DISCONNECTED] >>
     ELSE <<>>)
    \o
    (IF isInTextChat(tc, socketId)
     THEN << [ev |-> "user-left", to |-> TEXT_CHAT, rcpts |-> IoTo(rm, TEXT_CHAT),
              reason |-> Null] >>
     ELSE <<>>)

\* the registered users other than socketId whose roomId is the pair room roomId
Peers(reg, socketId, roomId) ==
    IF roomId = Null \/ roomId = TEXT_CHAT THEN {}
    ELSE { reg[i].id : i \in { j \in DOMAIN reg : reg[j].id # socketId /\ reg[j].roomId = roomId } }

(***************************************************************************)
(* chatSocket handlers                                                     *)
(***************************************************************************)
\* the signalingState values of an RTCPeerConnection the negotiation goes through
STABLE == "stable"
HAVE_LOCAL_OFFER == "have-local-offer"
HAVE_REMOTE_OFFER == "have-remote-offer"

\* peerConnectionRef.current = null
NoPc == Null

\* the startChat call a page has yet to make: none, the one that ends skipChat,
\* or the one the auto-search timer of handleUserLeft makes
NoRestart == "no"
RestartCall == "call"
RestartTimer == "timer"

\* the video chat page before any event: no peer connection (pc is the
\* signalingState of peerConnectionRef.current, or NoPc), roomIdRef null, not
\* waiting, not connected, no startChat call due, nothing received
NoPage == [pc |-> NoPc, roomId |-> Null, isWaiting |-> FALSE, isConnected |-> FALSE,
           restart |-> NoRestart, inbox |-> <<>>]

Init ==
    /\ onlineUsers = <<>>
    /\ textChatUsers = {}
    /\ rooms = [r \in RoomNames |-> {}]
    /\ used = {}
    /\ steps = 0
    /\ out = <<>>
    /\ last = [op |-> "init"]
    /\ pending = <<>>
    /\ clients = [id \in {} |-> NoPage]

\* io.on('connection'): addUser, then the user count goes to every socket
ConnectionHandler(socketId) ==
    /\ Cardinality(used) < Len(IdOrder)
    /\ socketId = NextId(used)
    /\ used' = used \cup {socketId}
    /\ \E rnd \in ConnectionDraws : onlineUsers' = addUser(onlineUsers, socketId, NoData, rnd)
    /\ rooms' = SocketJoin(rooms, socketId, socketId)
    /\ out' = << [ev |-> "user-count", to |-> "*", rcpts |-> RegisteredIds(onlineUsers'),
                  count |-> getOnlineUserCount(onlineUsers')] >>
    /\ last' = [op |-> "connection", id |-> socketId]
    /\ UNCHANGED textChatUsers

Connection(socketId) ==
    /\ steps < MaxEvents
    /\ steps' = steps + 1
    /\ UNCHANGED <<pending, clients>>
    /\ ConnectionHandler(socketId)

\* socket.on('join-room')
JoinRoomHandler(socketId, data) ==
    /\ HasUser(onlineUsers, socketId)
    /\ LET interestValidation == validateInterests(data.interests)
           reg1 == updateUser(onlineUsers, socketId,
                              [interests |-> interestValidation.interests])
           matchId == findMatchingUser(reg1, socketId, interestValidation.interests)
           newRoomId == PairRoomId(socketId, matchId)
           rooms2 == SocketJoin(SocketJoin(rooms, socketId, newRoomId), matchId, newRoomId)
           info == [op |-> "join-room", id |-> socketId, roomId |-> data.roomId,
                    interests |-> data.interests,
                    prevRoomId |-> getUser(onlineUsers, socketId).roomId]
       IN IF ~interestValidation.isValid
          THEN /\ UNCHANGED <<onlineUsers, textChatUsers, rooms>>
               /\ out' = <<>>
               /\ last' = info @@ [result |-> "invalid"]
          ELSE IF data.roomId = TEXT_CHAT
          THEN /\ onlineUsers' = updateUser(reg1, socketId, [roomId |-> TEXT_CHAT])
               /\ textChatUsers' = addToTextChat(textChatUsers, socketId)
               /\ rooms' = SocketJoin(rooms, socketId, TEXT_CHAT)
               /\ out' = << [ev |-> "user-joined", to |-> TEXT_CHAT,
                             rcpts |-> SocketTo(rooms', socketId, TEXT_CHAT)] >>
               /\ last' = info @@ [result |-> "text-chat"]
          ELSE IF matchId # Null
          THEN /\ onlineUsers' = createRoom(reg1, socketId, matchId)
               /\ rooms' = rooms2
               /\ out' = MatchFoundEvents(rooms2, socketId, matchId, newRoomId,
                                          interestValidation.interests,
                                          getUser(reg1, matchId).interests)
               /\ last' = info @@ [result |-> "matched", matchId |-> matchId]
               /\ UNCHANGED textChatUsers
          ELSE /\ onlineUsers' = updateUser(reg1, socketId, [roomId |-> Null])
               /\ out' = <<>>
               /\ last' = info @@ [result |-> "waiting"]
               /\ UNCHANGED <<textChatUsers, rooms>>
    /\ UNCHANGED used

JoinRoom(socketId, data) ==
    /\ steps < MaxEvents
    /\ steps' = steps + 1
    /\ UNCHANGED <<pending, clients>>
    /\ JoinRoomHandler(socketId, data)

\* socket.on('leave-room')
LeaveRoomHandler(socketId, data) ==
    /\ HasUser(onlineUsers, socketId)
    /\ LET roomId == data.roomId
           info == [op |-> "leave-room", id |-> socketId, roomId |-> roomId,
                    reason |-> data.reason,
                    prevRoomId |-> getUser(onlineUsers, socketId).roomId,
                    peers |-> Peers(onlineUsers, socketId,
                                    getUser(onlineUsers, socketId).roomId)]
       IN /\ IF roomId # Null /\ roomId # TEXT_CHAT
             THEN /\ out' = << [ev |-> "user-left", to |-> roomId,
                                rcpts |-> SocketTo(rooms, socketId, roomId),
                                reason |-> IF data.reason # Null THEN data.reason
                                           ELSE DISCONNECTED] >>
                  /\ rooms' = SocketLeave(rooms, socketId, roomId)
             ELSE IF roomId = TEXT_CHAT
             THEN /\ out' = << [ev |-> "user-left", to |-> TEXT_CHAT,
                                rcpts |-> SocketTo(rooms, socketId, TEXT_CHAT),
                                reason |-> Null] >>
                  /\ rooms' = SocketLeave(rooms, socketId, TEXT_CHAT)
             ELSE /\ out' = <<>>
                  /\ rooms' = rooms
          /\ onlineUsers' = leaveRoom(onlineUsers, socketId)
          /\ last' = info
    /\ UNCHANGED <<textChatUsers, used>>

LeaveRoom(socketId, data) ==
    /\ steps < MaxEvents
    /\ steps' = steps + 1
    /\ UNCHANGED <<pending, clients>>
    /\ LeaveRoomHandler(socketId, data)

\* socket.on('disconnect')
Disconnect(socketId) ==
    /\ steps < MaxEvents
    /\ steps' = steps + 1
    /\ UNCHANGED <<pending, clients>>
    /\ HasUser(onlineUsers, socketId)
    /\ LET user == getUser(onlineUsers, socketId)
           rooms1 == LeaveAll(rooms, socketId)
       IN /\ onlineUsers' = removeUser(onlineUsers, socketId)
          /\ textChatUsers' = textChatUsers \ {socketId}
          /\ rooms' = rooms1
          /\ out' = UserLeftOnDisconnect(rooms1, textChatUsers, socketId, user.roomId) \o
                    << [ev |-> "user-count", to |-> "*",
                        rcpts |-> RegisteredIds(onlineUsers'),
                        count |-> getOnlineUserCount(onlineUsers')] >>
          /\ last' = [op |-> "disconnect", id |-> socketId, prevRoomId |-> user.roomId,
                       peers |-> Peers(onlineUsers, socketId, user.roomId),
                       wasInTextChat |-> isInTextChat(textChatUsers, socketId)]
    /\ UNCHANGED used

\* socket.on('send-message'): the text, trimmed, goes to every member of the room
\* the payload names, the sender included when it is a member
SendMessage(socketId, data) ==
    /\ steps < MaxEvents
    /\ steps' = steps + 1
    /\ UNCHANGED <<pending, clients>>
    /\ HasUser(onlineUsers, socketId)
    /\ LET user == getUser(onlineUsers, socketId)
           validation == validateMessage(data.message)
           info == [op |-> "send-message", id |-> socketId, roomId |-> data.roomId,
                    message |-> data.message]
       IN IF ~validation.isValid
          THEN /\ out' = <<>>
               /\ last' = info @@ [result |-> "invalid"]
          ELSE /\ out' = << [ev |-> "receive-message", to |-> data.roomId,
                             rcpts |-> IoTo(rooms, data.roomId),
                             roomId |-> data.roomId,
                             message |-> validation.message,
                             sender |-> user.username] >>
               /\ last' = info @@ [result |-> "relayed"]
    /\ UNCHANGED <<onlineUsers, textChatUsers, rooms, used>>

\* socket.on('chat-message'): the text, trimmed, goes to the other members of the
\* room the payload names; the handler runs for a connected socket
ChatMessageHandler(socketId, data) ==
    LET roomId == data.roomId
        message == data.message
        validation == validateMessage(message)
        info == [op |-> "chat-message", id |-> socketId, roomId |-> roomId,
                 message |-> message]
    IN IF roomId = Null \/ ~Truthy(message)
       THEN /\ out' = <<>>
            /\ last' = info @@ [result |-> "ignored"]
       ELSE IF ~validation.isValid
       THEN /\ out' = <<>>
            /\ last' = info @@ [result |-> "invalid"]
       ELSE /\ out' = << [ev |-> "chat-message", to |-> roomId,
                          rcpts |-> SocketTo(rooms, socketId, roomId),
                          message |-> validation.message,
                          senderId |-> socketId] >>
            /\ last' = info @@ [result |-> "relayed"]

ChatMessage(socketId, data) ==
    /\ steps < MaxEvents
    /\ steps' = steps + 1
    /\ UNCHANGED <<pending, clients>>
    /\ HasUser(onlineUsers, socketId)
    /\ ChatMessageHandler(socketId, data)
    /\ UNCHANGED <<onlineUsers, textChatUsers, rooms, used>>

\* socket.on('signal'): the signal goes, as it came, to the other members of the
\* room the payload names; the handler runs for a connected socket
SignalHandler(socketId, data) ==
    LET roomId == data.roomId
        signal == data.signal
        info == [op |-> "signal", id |-> socketId, roomId |-> roomId, signal |-> signal]
    IN IF roomId = Null \/ signal = Null
       THEN /\ out' = <<>>
            /\ last' = info @@ [result |-> "ignored"]
       ELSE /\ out' = << [ev |-> "signal", to |-> roomId,
                          rcpts |-> SocketTo(rooms, socketId, roomId),
                          signal |-> signal,
                          userId |-> socketId] >>
            /\ last' = info @@ [result |-> "relayed"]

Signal(socketId, data) ==
    /\ steps < MaxEvents
    /\ steps' = steps + 1
    /\ UNCHANGED <<pending, clients>>
    /\ HasUser(onlineUsers, socketId)
    /\ SignalHandler(socketId, data)
    /\ UNCHANGED <<onlineUsers, textChatUsers, rooms, used>>

Next ==
    \/ \E socketId \in Ids : Connection(socketId)
    \/ \E socketId \in Ids, roomId \in {Null, TEXT_CHAT}, interests \in InterestInputs :
          JoinRoom(socketId, [roomId |-> roomId, interests |-> interests])
    \/ \E socketId \in Ids : \E roomId \in RoomInputs(rooms, socketId) :
          \E reason \in ReasonInputs(roomId) :
          LeaveRoom(socketId, [roomId |-> roomId, reason |-> reason])
    \/ \E socketId \in Ids : Disconnect(socketId)

Spec == Init /\ [][Next]_vars

(***************************************************************************)
(* The relay handlers together with the session handlers, over shorter runs *)
(***************************************************************************)
\* the number of events a run with relay events handles
MaxRelayEvents == 5

\* a text longer than the limit by one character
TooLong == [i \in 1..(MAX_MESSAGE_LENGTH + 1) |-> "x"]

\* the message a send-message or chat-message payload may carry
MessageInputs == { Undefined, Str(PaddedMusic), Str(Blank), Str(TooLong) }

\* the signal of a signal payload: none, or an opaque value
SignalInputs == { Null, "offer" }

\* the interests of join-room payloads in runs with relay events
RelayInterestInputs == { Undefined, NotArray, Arr(TooMany) }

\* the roomId a client may put in a relay payload: none, the text chat, the id of
\* a connected socket, or a pair room that has members
RelayRoomInputs(rm) ==
    {Null, TEXT_CHAT} \cup { r \in PairRooms \cup Ids : rm[r] # {} }

\* a run with relay events handles MaxRelayEvents events
InRelayRun == steps < MaxRelayEvents

RelayNext ==
    \/ \E socketId \in Ids : InRelayRun /\ Connection(socketId)
    \/ \E socketId \in Ids, roomId \in {Null, TEXT_CHAT}, interests \in RelayInterestInputs :
          InRelayRun /\ JoinRoom(socketId, [roomId |-> roomId, interests |-> interests])
    \/ \E socketId \in Ids : \E roomId \in RoomInputs(rooms, socketId) :
          \E reason \in ReasonInputs(roomId) :
          InRelayRun /\ LeaveRoom(socketId, [roomId |-> roomId, reason |-> reason])
    \/ \E socketId \in Ids : InRelayRun /\ Disconnect(socketId)
    \/ \E socketId \in Ids, message \in MessageInputs : \E roomId \in RelayRoomInputs(rooms) :
          InRelayRun /\ SendMessage(socketId, [roomId |-> roomId, message |-> message])
    \/ \E socketId \in Ids, message \in MessageInputs : \E roomId \in RelayRoomInputs(rooms) :
          InRelayRun /\ ChatMessage(socketId, [roomId |-> roomId, message |-> message])
    \/ \E socketId \in Ids, signal \in SignalInputs : \E roomId \in RelayRoomInputs(rooms) :
          InRelayRun /\ Signal(socketId, [roomId |-> roomId, signal |-> signal])

RelaySpec == Init /\ [][RelayNext]_vars

(***************************************************************************)
(* Properties                                                              *)
(***************************************************************************)
\* interests lists a requester may ask a match for
TestInterests == { <<>>, <<Music>>, <<Art>>, <<Art, Music>> }

Idle(u) == u.roomId = Null

IsPairRoom(roomId) == roomId # Null /\ roomId # TEXT_CHAT

Shares(u, interests) == Range(u.interests) \cap Range(interests) # {}

RoomOf(socketId) == getUser(onlineUsers, socketId).roomId

\* the events of out, by index, that socketId receives
Received(socketId, ev) ==
    { i \in DOMAIN out : out[i].ev = ev /\ socketId \in out[i].rcpts }

Matched == last.op = "join-room" /\ last.result = "matched"

\* the least index of a non-empty set of indices
Least(S) == CHOOSE i \in S : \A j \in S : i <= j

C2_PairedAtomically ==
    Matched =>
        LET A == last.id
            B == last.matchId
        IN /\ RoomOf(A) = PairRoomId(A, B)
           /\ RoomOf(B) = PairRoomId(A, B)
           /\ rooms[PairRoomId(A, B)] = {A, B}

\* a pairing of two users that had been paired with each other before
C2_Witness ==
    /\ Matched
    /\ steps >= 6
    /\ rooms[PairRoomId(last.matchId, last.id)] # {}

\* C3: findMatchingUser never returns the requester and never a user whose roomId
\* is set, in the first pass or in the second.
C3_NeverSelfNeverBusy ==
    \A socketId \in RegisteredIds(onlineUsers) :
        LET second == SecondPass(onlineUsers, socketId)
            Ok(m) == m = Null \/ (m # socketId /\ HasUser(onlineUsers, m) /\ RoomOf(m) = Null)
        IN /\ Ok(second)
           /\ \A interests \in TestInterests :
                 /\ Ok(FirstPass(onlineUsers, socketId, interests))
                 /\ Ok(findMatchingUser(onlineUsers, socketId, interests))

\* the first user of the registry is in a pair room, another is in the text chat,
\* and the requester still finds the idle third
C3_Witness ==
    /\ Len(onlineUsers) = 3
    /\ \E i, j, k \in DOMAIN onlineUsers :
          /\ i < k /\ j < k
          /\ IsPairRoom(onlineUsers[i].roomId)
          /\ onlineUsers[j].roomId = TEXT_CHAT
          /\ Idle(onlineUsers[k])
          /\ findMatchingUser(onlineUsers, onlineUsers[i].id, <<>>) = onlineUsers[k].id

\* the idle users other than the requester that share an interest with it
SharingIdle(socketId, interests) ==
    { i \in DOMAIN onlineUsers :
        /\ onlineUsers[i].id # socketId
        /\ Idle(onlineUsers[i])
        /\ Shares(onlineUsers[i], interests) }

\* the idle users other than the requester
OtherIdle(socketId) ==
    { i \in DOMAIN onlineUsers : onlineUsers[i].id # socketId /\ Idle(onlineUsers[i]) }

\* C4: if an idle user other than the requester shares an interest with it,
\* findMatchingUser returns the first such user of the registry; and what the
\* first pass returns always shares an interest with the requester.
C4_InterestPassFirstFit ==
    \A socketId \in RegisteredIds(onlineUsers), interests \in TestInterests :
        LET sharing == SharingIdle(socketId, interests)
            first == FirstPass(onlineUsers, socketId, interests)
        IN /\ sharing # {} =>
                 findMatchingUser(onlineUsers, socketId, interests)
                     = onlineUsers[Least(sharing)].id
           /\ first # Null => Shares(getUser(onlineUsers, first), interests)

\* an idle user without shared interest comes first, one that shares comes second
C4_Witness ==
    \E socketId \in Ids, interests \in TestInterests :
        /\ HasUser(onlineUsers, socketId)
        /\ SharingIdle(socketId, interests) # {}
        /\ Least(OtherIdle(socketId)) < Least(SharingIdle(socketId, interests))

\* C5: if no idle user shares an interest with the requester, findMatchingUser
\* returns the first idle user other than the requester, whatever the interests;
\* it returns none exactly when there is no idle user other than the requester.
C5_FallbackFirstIdle ==
    \A socketId \in RegisteredIds(onlineUsers) :
        LET idle == OtherIdle(socketId)
        IN \A interests \in TestInterests :
              LET found == findMatchingUser(onlineUsers, socketId, interests)
              IN /\ (idle # {} /\ SharingIdle(socketId, interests) = {}) =>
                       found = onlineUsers[Least(idle)].id
                 /\ found = Null <=> idle = {}

\* the fallback picks a user with no interests for a requester that has some, and
\* a user with interests for a requester that shares none of them
C5_Witness ==
    /\ \E socketId \in Ids :
          /\ HasUser(onlineUsers, socketId)
          /\ SharingIdle(socketId, <<Music>>) = {}
          /\ OtherIdle(socketId) # {}
          /\ onlineUsers[Least(OtherIdle(socketId))].interests = <<>>
    /\ \E socketId \in Ids :
          /\ HasUser(onlineUsers, socketId)
          /\ SharingIdle(socketId, <<Art>>) = {}
          /\ OtherIdle(socketId) # {}
          /\ onlineUsers[Least(OtherIdle(socketId))].interests = <<Music>>

LeftOwnPair ==
    /\ last.op = "leave-room"
    /\ IsPairRoom(last.prevRoomId)
    /\ last.roomId = last.prevRoomId
    /\ last.reason = SKIP
    /\ last.peers # {}

\* a user other than socketId may be given m as its match
EligibleFor(m, socketId) ==
    \E interests \in TestInterests : findMatchingUser(onlineUsers, socketId, interests) = m

DisconnectedFromPair ==
    /\ last.op = "disconnect"
    /\ IsPairRoom(last.prevRoomId)
    /\ last.peers # {}

Holders(roomId) == { o \in RegisteredIds(onlineUsers) : RoomOf(o) = roomId }

InTextChat(socketId) == isInTextChat(textChatUsers, socketId)

\* C11 as stated: every registered user is idle (no roomId, not in textChatUsers),
\* paired (roomId a pair room, not in textChatUsers) or in the text chat (roomId
\* 'text-chat' and in textChatUsers); membership of textChatUsers holds exactly
\* when the roomId is 'text-chat'.
C11_Original ==
    \A socketId \in RegisteredIds(onlineUsers) :
        \/ RoomOf(socketId) = Null /\ ~InTextChat(socketId)
        \/ IsPairRoom(RoomOf(socketId)) /\ ~InTextChat(socketId)
        \/ RoomOf(socketId) = TEXT_CHAT /\ InTextChat(socketId)

\* C12 as stated: a join-room, of any user, leaves the roomId of every user that
\* holds a pair room id as it was.
C12_Original ==
    [][ last'.op = "join-room" =>
          \A i \in DOMAIN onlineUsers :
              IsPairRoom(onlineUsers[i].roomId) =>
                  getUser(onlineUsers', onlineUsers[i].id).roomId = onlineUsers[i].roomId ]_vars

\* the join-room handled last carried more than MAX_INTERESTS interests
LongJoin ==
    /\ last.op = "join-room"
    /\ last.interests.kind = "array"
    /\ Len(last.interests.items) > MAX_INTERESTS

\* C15 as stated: a join-room with more than MAX_INTERESTS interests is not
\* rejected; the user's interests become the valid ones among the first
\* MAX_INTERESTS entries.
C15_Original ==
    LongJoin =>
        /\ last.result # "invalid"
        /\ getUser(onlineUsers, last.id).interests
              = FilterTrim(SubSeq(last.interests.items, 1, MAX_INTERESTS))

\* C15 as amended: a join-room with more than MAX_INTERESTS interests is rejected
\* whole: the registry, textChatUsers and the rooms stay as they were and no event
\* is emitted.
C15_LongListRejected ==
    [][ LongJoin' =>
          /\ UNCHANGED <<onlineUsers, textChatUsers, rooms>>
          /\ out' = <<>>
          /\ last'.result = "invalid" ]_vars

\* a pairing request with too many interests was handled while another user is idle
C15_Witness ==
    /\ LongJoin
    /\ last.roomId = Null
    /\ OtherIdle(last.id) # {}

(***************************************************************************)
(* Relay                                                                   *)
(***************************************************************************)
Relayed(op) == last.op = op /\ last.result = "relayed"

\* the sockets that receive an event of the handler that ran last
Recipients(ev) == { r \in Ids : Received(r, ev) # {} }

\* s and r are registered and hold the same pair room id
PairedWith(s, r) ==
    /\ s # r
    /\ HasUser(onlineUsers, s)
    /\ HasUser(onlineUsers, r)
    /\ IsPairRoom(RoomOf(s))
    /\ RoomOf(r) = RoomOf(s)

\* C13 as stated: a signal of s reaches r only if s and r hold the same pair room
\* id and the signal names that room; a sender that is not a member of the room
\* it names reaches no one.
C13_Original ==
    last.op = "signal" =>
        /\ \A r \in Recipients("signal") :
              PairedWith(last.id, r) /\ last.roomId = RoomOf(last.id)
        /\ last.id \notin Members(rooms, last.roomId) => Recipients("signal") = {}

\* C14 as stated: a relayed signal, chat-message or send-message reaches exactly
\* the members of the room it names other than the sender, carries the payload as
\* it was sent and the sender's identity.
C14_Original ==
    /\ Relayed("signal") =>
          /\ Recipients("signal") = Members(rooms, last.roomId) \ {last.id}
          /\ \A i \in DOMAIN out : out[i].signal = last.signal /\ out[i].userId = last.id
    /\ Relayed("chat-message") =>
          /\ Recipients("chat-message") = Members(rooms, last.roomId) \ {last.id}
          /\ \A i \in DOMAIN out : out[i].message = last.message.str /\ out[i].senderId = last.id
    /\ Relayed("send-message") =>
          /\ Recipients("receive-message") = Members(rooms, last.roomId) \ {last.id}
          /\ \A i \in DOMAIN out :
                /\ out[i].message = last.message.str
                /\ out[i].sender = getUser(onlineUsers, last.id).username

\* s is t with blanks only before and after it, and has none at its own ends
IsTrimOf(s, t) ==
    /\ s # <<>> => ~IsSpace(s[1]) /\ ~IsSpace(s[Len(s)])
    /\ \E a \in 0..Len(t) :
          /\ a + Len(s) <= Len(t)
          /\ \A i \in 1..Len(t) :
                IF i > a /\ i <= a + Len(s) THEN t[i] = s[i - a] ELSE IsSpace(t[i])

\* C14 as amended: a relayed signal or chat-message is emitted once, to the
\* members of the named room other than the sender, tagged with the sender's
\* socket id; a relayed send-message is emitted once, to all members of the named
\* room, the sender included when it is a member, tagged with the sender's
\* username; the signal is forwarded unchanged and a text is forwarded trimmed.
C14_RelayRecipients ==
    /\ Relayed("signal") =>
          /\ Len(out) = 1
          /\ Recipients("signal") = Members(rooms, last.roomId) \ {last.id}
          /\ out[1].signal = last.signal /\ out[1].userId = last.id
    /\ Relayed("chat-message") =>
          /\ Len(out) = 1
          /\ Recipients("chat-message") = Members(rooms, last.roomId) \ {last.id}
          /\ IsTrimOf(out[1].message, last.message.str) /\ out[1].senderId = last.id
    /\ Relayed("send-message") =>
          /\ Len(out) = 1
          /\ Recipients("receive-message") = Members(rooms, last.roomId)
          /\ IsTrimOf(out[1].message, last.message.str)
          /\ out[1].sender = getUser(onlineUsers, last.id).username

\* a member of the text chat, not alone in it, sent a padded text there and
\* received it itself
C14_Witness ==
    /\ Relayed("send-message")
    /\ last.roomId = TEXT_CHAT
    /\ last.id \in Recipients("receive-message")
    /\ Cardinality(Recipients("receive-message")) >= 2
    /\ out[1].message # last.message.str

\* the text of a payload fails validation: not a non-empty string, or blank, or
\* longer than MAX_MESSAGE_LENGTH once trimmed
BadText(message) ==
    \/ ~IsString(message)
    \/ \A i \in DOMAIN message.str : IsSpace(message.str[i])
    \/ \E i \in 1..(Len(message.str) - MAX_MESSAGE_LENGTH) :
          /\ ~IsSpace(message.str[i])
          /\ \E j \in (i + MAX_MESSAGE_LENGTH)..Len(message.str) : ~IsSpace(message.str[j])

\* the interests of a payload fail validation: not an array, or too many
BadInterests(interests) ==
    \/ interests.kind \notin {"undefined", "array"}
    \/ interests.kind = "array" /\ Len(interests.items) > MAX_INTERESTS

\* the handler that ran last turned its payload down
ValidationFailed ==
    \/ last.op = "join-room" /\ BadInterests(last.interests)
    \/ last.op \in {"send-message", "chat-message"} /\ BadText(last.message)

\* C18: a join-room with invalid interests, or a send-message or chat-message with
\* an invalid text, leaves the registry, textChatUsers and the rooms as they were
\* and emits no event.
C18_RejectedLeavesNoTrace ==
    [][ ValidationFailed' =>
          /\ UNCHANGED <<onlineUsers, textChatUsers, rooms>>
          /\ out' = <<>> ]_vars

\* a chat-message with a text over the limit was turned down, sent by a member of
\* a pair room to that room, the partner being in it
C18_Witness ==
    /\ last.op = "chat-message"
    /\ last.message = Str(TooLong)
    /\ IsPairRoom(last.roomId)
    /\ last.roomId = RoomOf(last.id)
    /\ Members(rooms, last.roomId) \ {last.id} # {}

(***************************************************************************)
(* The validators called on their own                                      *)
(***************************************************************************)
\* the most blanks put before and after a text
MaxPad == 2

Spaces(n) == [i \in 1..n |-> " "]

Body(n) == [i \in 1..n |-> "x"]

Around(n) == {n - 1, n, n + 1}

\* text lengths at and next to every limit the validators test
BodyLengths ==
    {0, 1} \cup Around(MIN_USERNAME_LENGTH) \cup Around(MAX_USERNAME_LENGTH)
           \cup Around(MAX_MESSAGE_LENGTH)

\* the values a validator may be given: padded texts, texts padded with a tab and
\* a newline, a text with a blank inside, and values that are not strings
TextInputs ==
    { Str(Spaces(l) \o Body(n) \o Spaces(r)) : l \in 0..MaxPad, r \in 0..MaxPad, n \in BodyLengths }
    \cup { Str(<<"\t">> \o Body(MIN_USERNAME_LENGTH) \o <<"\n">>),
           Str(<<"x", " ", "y">>),
           Undefined, Num(0), Num(7), Arr(<<>>) }

\* validateMessage(message), the call and its result
ValidateMessageCall(message) ==
    /\ last' = [op |-> "validateMessage", input |-> message,
                result |-> validateMessage(message)]
    /\ UNCHANGED <<onlineUsers, textChatUsers, rooms, used, steps, out, pending, clients>>

\* validateUsername(username), the call and its result
ValidateUsernameCall(username) ==
    /\ last' = [op |-> "validateUsername", input |-> username,
                result |-> validateUsername(username)]
    /\ UNCHANGED <<onlineUsers, textChatUsers, rooms, used, steps, out, pending, clients>>

\* the longest of the short interests lists tried entry by entry
MaxListLen == 3

\* what an entry of an interests list may be: texts, padded or not, a blank, the
\* empty string, a number
InterestEntries == { Str(Music), Str(Art), Str(PaddedMusic), Str(Blank), Str(<<>>), Num(7) }

\* a list of MAX_INTERESTS entries of which some are dropped
MixedFull ==
    [i \in 1..MAX_INTERESTS |->
        IF i % 3 = 0 THEN Str(Blank) ELSE IF i % 3 = 1 THEN Str(PaddedMusic) ELSE Num(7)]

\* a list of MAX_INTERESTS entries that are all kept
PaddedFull == [i \in 1..MAX_INTERESTS |-> Str(PaddedMusic)]

\* the values validateInterests may be given
InterestListInputs ==
    { Arr(items) : items \in UNION { [1..n -> InterestEntries] : n \in 0..MaxListLen } }
    \cup { Undefined, NotArray, Arr(MixedFull), Arr(PaddedFull), Arr(TooMany) }

\* validateInterests(interests), the call and its result
ValidateInterestsCall(interests) ==
    /\ last' = [op |-> "validateInterests", input |-> interests,
                result |-> validateInterests(interests)]
    /\ UNCHANGED <<onlineUsers, textChatUsers, rooms, used, steps, out, pending, clients>>

ValidatorNext ==
    \/ \E message \in TextInputs : ValidateMessageCall(message)
    \/ \E username \in TextInputs : ValidateUsernameCall(username)
    \/ \E interests \in InterestListInputs : ValidateInterestsCall(interests)

ValidatorSpec == Init /\ [][ValidatorNext]_vars

\* the first and the last character of t that is not a blank, t having one
FirstInk(t) == CHOOSE i \in DOMAIN t : ~IsSpace(t[i]) /\ \A j \in 1..(i - 1) : IsSpace(t[j])
LastInk(t) == CHOOSE i \in DOMAIN t : ~IsSpace(t[i]) /\ \A j \in (i + 1)..Len(t) : IsSpace(t[j])

\* the length of t without the blanks at its ends
InkSpan(t) ==
    IF \A i \in DOMAIN t : IsSpace(t[i]) THEN 0 ELSE LastInk(t) - FirstInk(t) + 1

\* C16: validateMessage accepts exactly the strings whose length, once trimmed, is
\* from 1 to MAX_MESSAGE_LENGTH, and returns the trimmed text.
C16_MessageAcceptedIffInRange ==
    last.op = "validateMessage" =>
        /\ last.result.isValid <=>
              /\ IsString(last.input)
              /\ InkSpan(last.input.str) >= 1
              /\ InkSpan(last.input.str) <= MAX_MESSAGE_LENGTH
        /\ last.result.isValid =>
              /\ IsTrimOf(last.result.message, last.input.str)
              /\ Len(last.result.message) = InkSpan(last.input.str)

\* a text of MAX_MESSAGE_LENGTH characters with blanks around it was accepted
C16_Witness ==
    /\ last.op = "validateMessage"
    /\ last.result.isValid
    /\ Len(last.result.message) = MAX_MESSAGE_LENGTH
    /\ Len(last.input.str) > MAX_MESSAGE_LENGTH

\* C17: validateUsername accepts exactly the strings whose length, once trimmed,
\* is from MIN_USERNAME_LENGTH to MAX_USERNAME_LENGTH, and returns the trimmed name.
C17_UsernameAcceptedIffInRange ==
    last.op = "validateUsername" =>
        /\ last.result.isValid <=>
              /\ IsString(last.input)
              /\ InkSpan(last.input.str) >= MIN_USERNAME_LENGTH
              /\ InkSpan(last.input.str) <= MAX_USERNAME_LENGTH
        /\ last.result.isValid =>
              /\ IsTrimOf(last.result.username, last.input.str)
              /\ Len(last.result.username) = InkSpan(last.input.str)

\* a name of MIN_USERNAME_LENGTH characters with blanks around it was accepted
C17_Witness ==
    /\ last.op = "validateUsername"
    /\ last.result.isValid
    /\ Len(last.result.username) = MIN_USERNAME_LENGTH
    /\ Len(last.input.str) > MIN_USERNAME_LENGTH

(***************************************************************************)
(* matchingService called on its own                                       *)
(***************************************************************************)
\* the number of calls a run makes
MaxCalls == 4

\* the numbers Math.random() may give addUser
ServiceDraws == {7, 8}

\* the userData addUser may be given: none, interests and a name, a roomId, an
\* empty name
UserDataInputs ==
    { NoData,
      [interests |-> <<Art>>, username |-> "Ann"],
      [roomId |-> TEXT_CHAT],
      [username |-> Null] }

\* the updates updateUser may be given
UpdateInputs == { [interests |-> <<Music>>], [roomId |-> TEXT_CHAT] }

\* the interests findMatchingUser may be called with
FindInterestInputs == { <<>>, <<Art>>, <<Art, Music>> }

\* what a call leaves alone: the transport, and the events of the handlers
ServiceFrame ==
    /\ steps < MaxCalls
    /\ steps' = steps + 1
    /\ UNCHANGED <<pending, clients>>
    /\ UNCHANGED <<rooms, used, out>>

AddUserCall(socketId, userData, rnd) ==
    /\ ServiceFrame
    /\ onlineUsers' = addUser(onlineUsers, socketId, userData, rnd)
    /\ last' = [op |-> "addUser", id |-> socketId, userData |-> userData,
                present |-> HasUser(onlineUsers, socketId)]
    /\ UNCHANGED textChatUsers

\* updateUser returns the user it updated, undefined when there is none
UpdateUserCall(socketId, updates) ==
    /\ ServiceFrame
    /\ onlineUsers' = updateUser(onlineUsers, socketId, updates)
    /\ last' = [op |-> "updateUser", id |-> socketId, updates |-> updates,
                present |-> HasUser(onlineUsers, socketId),
                returned |-> IF HasUser(onlineUsers', socketId)
                             THEN getUser(onlineUsers', socketId) ELSE Undefined]
    /\ UNCHANGED textChatUsers

CreateRoomCall(socketId1, socketId2) ==
    /\ ServiceFrame
    /\ onlineUsers' = createRoom(onlineUsers, socketId1, socketId2)
    /\ last' = [op |-> "createRoom", id |-> socketId1, matchId |-> socketId2]
    /\ UNCHANGED textChatUsers

\* removeUser deletes the id from onlineUsers and from textChatUsers and returns
\* the entry it found, undefined when there was none
RemoveUserCall(socketId) ==
    /\ ServiceFrame
    /\ onlineUsers' = removeUser(onlineUsers, socketId)
    /\ textChatUsers' = textChatUsers \ {socketId}
    /\ last' = [op |-> "removeUser", id |-> socketId,
                present |-> HasUser(onlineUsers, socketId),
                repeated |-> last.op = "removeUser" /\ last.id = socketId /\ last.present,
                returned |-> IF HasUser(onlineUsers, socketId)
                             THEN getUser(onlineUsers, socketId) ELSE Undefined]

AddToTextChatCall(socketId) ==
    /\ ServiceFrame
    /\ textChatUsers' = addToTextChat(textChatUsers, socketId)
    /\ last' = [op |-> "addToTextChat", id |-> socketId]
    /\ UNCHANGED onlineUsers

\* findMatchingUser(socketId, interests), the call and the id it returns
FindMatchingUserCall(socketId, interests) ==
    /\ ServiceFrame
    /\ last' = [op |-> "findMatchingUser", id |-> socketId, interests |-> interests,
                result |-> findMatchingUser(onlineUsers, socketId, interests),
                repeated |-> /\ last.op = "findMatchingUser"
                             /\ last.id = socketId
                             /\ last.interests = interests]
    /\ UNCHANGED <<onlineUsers, textChatUsers>>

ServiceNext ==
    \/ \E socketId \in Ids, interests \in FindInterestInputs :
          FindMatchingUserCall(socketId, interests)
    \/ \E socketId \in Ids, userData \in UserDataInputs, rnd \in ServiceDraws :
          AddUserCall(socketId, userData, rnd)
    \/ \E socketId \in Ids, updates \in UpdateInputs : UpdateUserCall(socketId, updates)
    \/ \E socketId1 \in Ids, socketId2 \in Ids : CreateRoomCall(socketId1, socketId2)
    \/ \E socketId \in Ids : RemoveUserCall(socketId)
    \/ \E socketId \in Ids : AddToTextChatCall(socketId)

ServiceSpec == Init /\ [][ServiceNext]_vars

\* C19 as stated: whatever userData holds, the entry addUser inserts has no roomId.
C19_Original ==
    last.op = "addUser" => getUser(onlineUsers, last.id).roomId = Null

\* C20 as stated: addUser for an id that is in the registry leaves the registry,
\* and so the entry of that id, as it was.
C20_Original ==
    [][ (last'.op = "addUser" /\ HasUser(onlineUsers, last'.id)) =>
            onlineUsers' = onlineUsers ]_vars

\* the entries of the registry other than socketId's, in their order
Others(reg, socketId) == SelectSeq(reg, LAMBDA u : u.id # socketId)

\* C21: removeUser takes the id out of the registry and of textChatUsers and
\* returns the entry it had, leaving every other entry and member as it was; a
\* call for an id that has no entry returns undefined, and a call that repeats
\* the call before it changes neither the registry nor textChatUsers.
C21_RemoveUserIdempotent ==
    [][ last'.op = "removeUser" =>
          /\ ~HasUser(onlineUsers', last'.id)
          /\ last'.id \notin textChatUsers'
          /\ onlineUsers' = Others(onlineUsers, last'.id)
          /\ textChatUsers' = textChatUsers \ {last'.id}
          /\ HasUser(onlineUsers, last'.id) =>
                last'.returned = getUser(onlineUsers, last'.id)
          /\ ~HasUser(onlineUsers, last'.id) =>
                last'.returned = Undefined /\ onlineUsers' = onlineUsers
          /\ (last.op = "removeUser" /\ last.id = last'.id) =>
                /\ last'.returned = Undefined
                /\ onlineUsers' = onlineUsers
                /\ textChatUsers' = textChatUsers ]_vars

\* removeUser was called twice in a row for an id that had an entry, another
\* user being registered
C21_Witness ==
    /\ last.op = "removeUser"
    /\ last.repeated
    /\ Len(onlineUsers) >= 1

\* C22: updateUser for an id that has no entry returns undefined and leaves the
\* registry as it was; for an id that has one it changes that entry only, and
\* only in the fields of the updates.
C22_UpdateUserAbsentNoOp ==
    [][ last'.op = "updateUser" =>
          /\ RegisteredIds(onlineUsers') = RegisteredIds(onlineUsers)
          /\ Others(onlineUsers', last'.id) = Others(onlineUsers, last'.id)
          /\ textChatUsers' = textChatUsers
          /\ ~HasUser(onlineUsers, last'.id) =>
                onlineUsers' = onlineUsers /\ last'.returned = Undefined
          /\ HasUser(onlineUsers, last'.id) =>
                /\ IndexOf(onlineUsers', last'.id) = IndexOf(onlineUsers, last'.id)
                /\ last'.returned = getUser(onlineUsers', last'.id)
                /\ \A f \in DOMAIN getUser(onlineUsers, last'.id) :
                      getUser(onlineUsers', last'.id)[f] =
                          IF f \in DOMAIN last'.updates THEN last'.updates[f]
                          ELSE getUser(onlineUsers, last'.id)[f] ]_vars

\* updateUser was called for an id that has no entry while another user is registered
C22_Witness ==
    /\ last.op = "updateUser"
    /\ ~last.present
    /\ Len(onlineUsers) >= 1

\* C30: findMatchingUser changes no entry of the registry and no member of
\* textChatUsers; it returns the first entry, in insertion order, that is idle,
\* is not the requester and shares an interest, else the first that is idle and
\* not the requester, else none; called again on the same registry with the
\* same requester and interests it returns the same id.
C30_FindMatchReadOnlyDeterministic ==
    [][ last'.op = "findMatchingUser" =>
          /\ UNCHANGED <<onlineUsers, textChatUsers>>
          /\ last'.result =
                IF SharingIdle(last'.id, last'.interests) # {}
                THEN onlineUsers[Least(SharingIdle(last'.id, last'.interests))].id
                ELSE IF OtherIdle(last'.id) # {}
                THEN onlineUsers[Least(OtherIdle(last'.id))].id
                ELSE Null
          /\ last'.repeated => last'.result = last.result ]_vars

\* findMatchingUser was called twice in a row with the same requester and
\* interests while two other users were idle
C30_Witness ==
    /\ last.op = "findMatchingUser"
    /\ last.repeated
    /\ Cardinality(OtherIdle(last.id)) >= 2
    /\ last.result # Null

\* the sockets the transport holds: a connected socket is in the room of its id
Connected(rm) == { s \in Ids : s \in rm[s] }

\* the user-count events among evs, by index
UserCounts(evs) == { i \in DOMAIN evs : evs[i].ev = "user-count" }

\* C23: a connection and a disconnect each broadcast exactly one user-count, to
\* every connected socket, carrying the size of the registry after the event,
\* which is the number of sockets connected so far less those disconnected; no
\* other event emits a user-count or changes the size of the registry.
C23_UserCountBroadcast ==
    [][ /\ last'.op \in {"connection", "disconnect"} =>
             /\ Cardinality(UserCounts(out')) = 1
             /\ \A i \in UserCounts(out') :
                   /\ out'[i].count = Len(onlineUsers')
                   /\ out'[i].count = Cardinality(used') - Cardinality(used' \ Connected(rooms'))
                   /\ out'[i].rcpts = Connected(rooms')
        /\ last'.op \notin {"connection", "disconnect"} =>
             /\ UserCounts(out') = {}
             /\ Len(onlineUsers') = Len(onlineUsers) ]_vars

\* a disconnect that left two users registered has just broadcast its count
C23_Witness ==
    /\ last.op = "disconnect"
    /\ Len(onlineUsers) = 2
    /\ \E i \in UserCounts(out) : out[i].count = 2

\* C28: a join-room for the text chat that passes validation sets the user's
\* roomId to 'text-chat'; a later pairing join-room of a user whose roomId is
\* 'text-chat', when it passes validation and another user is idle, is matched:
\* the user's roomId becomes a pair room, and the user stays in textChatUsers
\* and in the socket room 'text-chat'.
C28_TextChatThenPairing ==
    [][ last'.op = "join-room" /\ last'.result # "invalid" =>
          /\ last'.roomId = TEXT_CHAT =>
                /\ getUser(onlineUsers', last'.id).roomId = TEXT_CHAT
                /\ last'.id \in textChatUsers'
                /\ last'.id \in rooms'[TEXT_CHAT]
          /\ ( /\ last'.roomId # TEXT_CHAT
               /\ RoomOf(last'.id) = TEXT_CHAT
               /\ OtherIdle(last'.id) # {} ) =>
                /\ last'.result = "matched"
                /\ IsPairRoom(getUser(onlineUsers', last'.id).roomId)
                /\ last'.id \in rooms'[getUser(onlineUsers', last'.id).roomId]
                /\ last'.id \in textChatUsers => last'.id \in textChatUsers'
                /\ last'.id \in rooms[TEXT_CHAT] => last'.id \in rooms'[TEXT_CHAT] ]_vars

\* a user that had joined the text chat has just been paired and is still a
\* member of the text chat
C28_Witness ==
    /\ Matched
    /\ last.prevRoomId = TEXT_CHAT
    /\ IsPairRoom(RoomOf(last.id))
    /\ InTextChat(last.id)
    /\ last.id \in rooms[TEXT_CHAT]

\* a join-room that asked for a pairing and passed validation is the step
PairingJoinStep ==
    /\ last'.op = "join-room"
    /\ last'.result # "invalid"
    /\ last'.roomId # TEXT_CHAT

\* the users other than the requester that hold no pair room
OtherUnpaired(socketId) ==
    { i \in DOMAIN onlineUsers :
        onlineUsers[i].id # socketId /\ ~IsPairRoom(onlineUsers[i].roomId) }

\* C29 as stated: a pairing join-room is matched whenever another registered
\* user holds no pair room, a user whose roomId is 'text-chat' included.
C29_Original ==
    [][ PairingJoinStep /\ OtherUnpaired(last'.id) # {} =>
          last'.result = "matched" ]_vars

\* C29: a pairing join-room is matched exactly when another registered user has
\* no roomId, and the user it is matched with had no roomId: a user whose
\* roomId is 'text-chat' is never the match, a user of textChatUsers whose
\* roomId has been cleared can be.
C29_OnlyRoomlessEligible ==
    [][ PairingJoinStep =>
          /\ last'.result = "matched" <=> OtherIdle(last'.id) # {}
          /\ last'.result = "matched" =>
                /\ HasUser(onlineUsers, last'.matchId)
                /\ last'.matchId # last'.id
                /\ RoomOf(last'.matchId) = Null ]_vars

\* the match just found is a member of textChatUsers: it had joined the text
\* chat and left it, which cleared its roomId
C29_Witness ==
    /\ Matched
    /\ InTextChat(last.matchId)
    /\ IsPairRoom(RoomOf(last.matchId))

(***************************************************************************)
(* RoomIdSpec: createRoom on socket ids that contain the separator         *)
(***************************************************************************)
\* a run of RoomIdSpec makes MaxRoomCalls calls
MaxRoomCalls == 6

\* socket ids as the transport assigns them: strings of one length over an
\* alphabet that holds '-'
DashIds == { "a-", "-a", "--", "aa" }

RoomIdFrame ==
    /\ steps < MaxRoomCalls
    /\ steps' = steps + 1
    /\ UNCHANGED <<pending, clients>>
    /\ UNCHANGED <<textChatUsers, rooms, used, out>>

\* a socket connects: addUser(socket.id)
RoomIdAddUser(socketId) ==
    /\ RoomIdFrame
    /\ ~HasUser(onlineUsers, socketId)
    /\ \E rnd \in ConnectionDraws : onlineUsers' = addUser(onlineUsers, socketId, NoData, rnd)
    /\ last' = [op |-> "addUser", id |-> socketId]

\* join-room found matchId for socketId: createRoom(socket.id, matchId)
RoomIdCreateRoom(socketId, matchId) ==
    /\ RoomIdFrame
    /\ HasUser(onlineUsers, socketId)
    /\ matchId = findMatchingUser(onlineUsers, socketId, <<>>)
    /\ matchId # Null
    /\ onlineUsers' = createRoom(onlineUsers, socketId, matchId)
    /\ last' = [op |-> "createRoom", id |-> socketId, matchId |-> matchId]

\* leave-room: leaveRoom(socket.id)
RoomIdLeaveRoom(socketId) ==
    /\ RoomIdFrame
    /\ HasUser(onlineUsers, socketId)
    /\ onlineUsers' = leaveRoom(onlineUsers, socketId)
    /\ last' = [op |-> "leaveRoom", id |-> socketId]

\* disconnect: removeUser(socket.id)
RoomIdRemoveUser(socketId) ==
    /\ RoomIdFrame
    /\ HasUser(onlineUsers, socketId)
    /\ onlineUsers' = removeUser(onlineUsers, socketId)
    /\ last' = [op |-> "removeUser", id |-> socketId]

RoomIdNext ==
    \/ \E socketId \in DashIds : RoomIdAddUser(socketId)
    \/ \E socketId \in DashIds, matchId \in DashIds : RoomIdCreateRoom(socketId, matchId)
    \/ \E socketId \in DashIds : RoomIdLeaveRoom(socketId)
    \/ \E socketId \in DashIds : RoomIdRemoveUser(socketId)

RoomIdSpec == Init /\ [][RoomIdNext]_vars

\* the ids a call is about
Subjects(call) ==
    IF call.op = "createRoom" THEN {call.id, call.matchId} ELSE {call.id}

\* C27: createRoom gives both members one pair room id that no other user holds,
\* so two pairings of different members never share a room id; the derived id
\* is the same for two ordered pairs of socket ids only when the pairs are the
\* same, ids that contain '-' included; and a user's room id is changed only by
\* a call about that user.
C27_PairRoomIdInjective ==
    [][ /\ last'.op = "createRoom" =>
             LET r == getUser(onlineUsers', last'.id).roomId
             IN /\ IsPairRoom(r)
                /\ getUser(onlineUsers', last'.matchId).roomId = r
                /\ \A i \in DOMAIN onlineUsers :
                      onlineUsers[i].id \notin {last'.id, last'.matchId} =>
                          onlineUsers[i].roomId # r
        /\ \A x1 \in DashIds, y1 \in DashIds, x2 \in DashIds, y2 \in DashIds :
             PairRoomId(x1, y1) = PairRoomId(x2, y2) => x1 = x2 /\ y1 = y2
        /\ \A i \in DOMAIN onlineUsers :
             ( /\ HasUser(onlineUsers', onlineUsers[i].id)
               /\ onlineUsers[i].id \notin Subjects(last') ) =>
                 getUser(onlineUsers', onlineUsers[i].id).roomId = onlineUsers[i].roomId
      ]_vars

\* two pairings are active at once, each of two users that hold its room id,
\* and a '-' ends one member's id and begins another's
C27_Witness ==
    /\ last.op = "createRoom"
    /\ Len(onlineUsers) = 4
    /\ \A i \in DOMAIN onlineUsers : IsPairRoom(onlineUsers[i].roomId)
    /\ Cardinality({ onlineUsers[i].roomId : i \in DOMAIN onlineUsers }) = 2
    /\ getUser(onlineUsers, "a-").roomId = PairRoomId("a-", "-a")

(***************************************************************************)
(* LateSpec: events handled for a socket the registry no longer holds      *)
(***************************************************************************)
\* the sockets that connected and are no longer registered
Gone == used \ RegisteredIds(onlineUsers)

\* what comes of an event whose handler returns at "if (!user) return"
NoUserReturn(op, socketId) ==
    /\ steps' = steps + 1
    /\ UNCHANGED <<pending, clients>>
    /\ socketId \in Gone
    /\ out' = <<>>
    /\ last' = [op |-> op, id |-> socketId, result |-> "no-user"]
    /\ UNCHANGED <<onlineUsers, textChatUsers, rooms, used>>

\* join-room, send-message and leave-room look the socket up first
LateJoinRoom(socketId) == NoUserReturn("join-room", socketId)

LateSendMessage(socketId) == NoUserReturn("send-message", socketId)

LateLeaveRoom(socketId) == NoUserReturn("leave-room", socketId)

\* chat-message and signal never look the socket up
LateChatMessage(socketId, data) ==
    /\ steps' = steps + 1
    /\ UNCHANGED <<pending, clients>>
    /\ socketId \in Gone
    /\ ChatMessageHandler(socketId, data)
    /\ UNCHANGED <<onlineUsers, textChatUsers, rooms, used>>

LateSignal(socketId, data) ==
    /\ steps' = steps + 1
    /\ UNCHANGED <<pending, clients>>
    /\ socketId \in Gone
    /\ SignalHandler(socketId, data)
    /\ UNCHANGED <<onlineUsers, textChatUsers, rooms, used>>

LateNext ==
    \/ \E socketId \in Ids : InRelayRun /\ Connection(socketId)
    \/ \E socketId \in Ids, roomId \in {Null, TEXT_CHAT} :
          InRelayRun /\ JoinRoom(socketId, [roomId |-> roomId, interests |-> Undefined])
    \/ \E socketId \in Ids : InRelayRun /\ Disconnect(socketId)
    \/ \E socketId \in Ids : InRelayRun /\ LateJoinRoom(socketId)
    \/ \E socketId \in Ids : InRelayRun /\ LateSendMessage(socketId)
    \/ \E socketId \in Ids : InRelayRun /\ LateLeaveRoom(socketId)
    \/ \E socketId \in Ids, message \in MessageInputs : \E roomId \in RelayRoomInputs(rooms) :
          InRelayRun /\ LateChatMessage(socketId, [roomId |-> roomId, message |-> message])
    \/ \E socketId \in Ids, signal \in SignalInputs : \E roomId \in RelayRoomInputs(rooms) :
          InRelayRun /\ LateSignal(socketId, [roomId |-> roomId, signal |-> signal])

LateSpec == Init /\ [][LateNext]_vars

\* C24 as stated: a join-room, send-message, chat-message, signal or leave-room
\* handled for a socket that is no longer registered changes neither the
\* registry, textChatUsers nor the rooms, and no socket receives an event.
C24_Original ==
    [][ ( /\ last'.op \in {"join-room", "send-message", "chat-message", "signal", "leave-room"}
          /\ last'.id \in Gone ) =>
          /\ UNCHANGED <<onlineUsers, textChatUsers, rooms>>
          /\ \A i \in DOMAIN out' : out'[i].rcpts = {} ]_vars

(***************************************************************************)
(* ReportSpec: the async report-user handler among the other handlers      *)
(***************************************************************************)
\* a run of ReportSpec handles MaxReportEvents events and resumptions
MaxReportEvents == 5

InReportRun == steps < MaxReportEvents

\* the payload of report-user: none, or an object that names the reported user
ReportInputs == { Undefined, [kind |-> "object", reportedUserId |-> "b"] }

\* socket.emit reaches the socket while it is connected
SocketEmit(rm, socketId) == IF socketId \in rm[socketId] THEN {socketId} ELSE {}

ReportAck(rm, socketId, success) ==
    [ev |-> "report-submitted", to |-> socketId, rcpts |-> SocketEmit(rm, socketId),
     success |-> success]

\* acknowledgements that go to every connected socket
ReportAcks_Broadcast(rm, socketId, data, saved) ==
    << [ev |-> "report-submitted", to |-> "*", rcpts |-> { s \in Ids : s \in rm[s] },
        success |-> saved] >>

\* what the handler emits once save() has settled: on a rejection the catch
\* block emits success: false; on success the handler emits success: true and
\* then reads data.reportedUserId for the log line, which throws when there is
\* no payload, and the catch block emits success: false as well
ReportAcks(rm, socketId, data, saved) ==
    IF ~saved THEN << ReportAck(rm, socketId, FALSE) >>
    ELSE IF data.kind = "undefined"
    THEN << ReportAck(rm, socketId, TRUE), ReportAck(rm, socketId, FALSE) >>
    ELSE << ReportAck(rm, socketId, TRUE) >>

\* s without its i-th element
RemoveAt(s, i) == SubSeq(s, 1, i - 1) \o SubSeq(s, i + 1, Len(s))

\* socket.on('report-user'), up to "await report.save()": the handler reads the
\* user, builds the report and is suspended
ReportUser(socketId, data) ==
    /\ HasUser(onlineUsers, socketId)
    /\ steps' = steps + 1
    /\ pending' = Append(pending, [id |-> socketId, data |-> data,
                                    reporterUsername |-> getUser(onlineUsers, socketId).username])
    /\ UNCHANGED clients
    /\ out' = <<>>
    /\ last' = [op |-> "report-user", id |-> socketId, data |-> data]
    /\ UNCHANGED <<onlineUsers, textChatUsers, rooms, used>>

\* the rest of the handler, when the save of the i-th suspended report settles:
\* saved tells whether it resolved or rejected
SaveSettled(i, saved) ==
    /\ i \in DOMAIN pending
    /\ steps' = steps + 1
    /\ pending' = RemoveAt(pending, i)
    /\ UNCHANGED clients
    /\ out' = ReportAcks(rooms, pending[i].id, pending[i].data, saved)
    /\ last' = [op |-> "report-settled", id |-> pending[i].id, data |-> pending[i].data,
                saved |-> saved]
    /\ UNCHANGED <<onlineUsers, textChatUsers, rooms, used>>

ReportNext ==
    \/ \E socketId \in Ids : InReportRun /\ Connection(socketId)
    \/ \E socketId \in Ids, roomId \in {Null, TEXT_CHAT} :
          InReportRun /\ JoinRoom(socketId, [roomId |-> roomId, interests |-> Undefined])
    \/ \E socketId \in Ids : InReportRun /\ Disconnect(socketId)
    \/ \E socketId \in Ids, data \in ReportInputs : InReportRun /\ ReportUser(socketId, data)
    \/ \E i \in 1..MaxReportEvents, saved \in BOOLEAN : InReportRun /\ SaveSettled(i, saved)

ReportSpec == Init /\ [][ReportNext]_vars

\* the report-submitted events among evs, by index
Acks(evs) == { i \in DOMAIN evs : evs[i].ev = "report-submitted" }

\* C25 as stated: a report-user emits nothing and changes nothing before its
\* save settles; when the save settles, exactly one report-submitted is
\* emitted, to the reporting socket, with success = TRUE exactly when the save
\* succeeded; and the registry, textChatUsers and the rooms stay as they were.
C25_Original ==
    [][ /\ last'.op = "report-user" =>
             /\ out' = <<>>
             /\ UNCHANGED <<onlineUsers, textChatUsers, rooms>>
        /\ last'.op = "report-settled" =>
             /\ Cardinality(Acks(out')) = 1
             /\ \A i \in Acks(out') : /\ out'[i].to = last'.id
                                       /\ out'[i].success = last'.saved
             /\ UNCHANGED <<onlineUsers, textChatUsers, rooms>> ]_vars

\* the sockets that have a report-user handler suspended
Suspended == { pending[i].id : i \in DOMAIN pending }

\* C26 as stated: while a report-user handler of a socket is suspended, the only
\* step handled for that socket is the settling of its save.
C26_Original ==
    [][ last'.id \in Suspended => last'.op = "report-settled" ]_vars

\* C26: events of a socket are handled while a report-user handler of that
\* socket is suspended; the handler itself changes neither the registry,
\* textChatUsers nor the rooms, before or after its suspension, emits nothing
\* before it and after it only report-submitted events addressed to its own
\* socket, which no other socket receives.
C26_ReportTouchesNothing ==
    [][ /\ last'.op = "report-user" =>
             /\ out' = <<>>
             /\ UNCHANGED <<onlineUsers, textChatUsers, rooms>>
             /\ Len(pending') = Len(pending) + 1
        /\ last'.op = "report-settled" =>
             /\ UNCHANGED <<onlineUsers, textChatUsers, rooms>>
             /\ Len(pending') = Len(pending) - 1
             /\ out' # <<>>
             /\ \A i \in DOMAIN out' : /\ out'[i].ev = "report-submitted"
                                        /\ out'[i].to = last'.id
                                        /\ out'[i].rcpts \subseteq {last'.id} ]_vars

\* a socket's disconnect was handled while its report-user handler was
\* suspended (the socket was registered when the handler began and is not now,
\* when its save settles), and another socket is connected
C26_Witness ==
    /\ last.op = "report-settled"
    /\ ~HasUser(onlineUsers, last.id)
    /\ Len(onlineUsers) >= 1

(***************************************************************************)
(* Eligibility, waiting and the notices of a leave                         *)
(***************************************************************************)
\* findMatchingUser, asked on behalf of requester, takes candidate when the
\* candidate is the only other entry it looks at
CandidateFor(requester, candidate) ==
    findMatchingUser(<< getUser(onlineUsers, candidate) >>, requester,
                     getUser(onlineUsers, requester).interests) = candidate

\* C31 as stated: of two distinct registered users, one is an eligible candidate
\* for the other's request exactly when the other is one for its request.
C31_Original ==
    \A A \in RegisteredIds(onlineUsers), B \in RegisteredIds(onlineUsers) :
        A # B => (CandidateFor(A, B) <=> CandidateFor(B, A))

\* C31: whether B is an eligible candidate for a request of A depends on B
\* alone: B is eligible exactly when it has no roomId.  Eligibility is mutual
\* between two users that both have no roomId; a user that holds a roomId
\* ('text-chat' or a pair room) finds an idle user eligible and is not itself
\* eligible for that user's request.
C31_EligibilityOfCandidate ==
    \A A \in RegisteredIds(onlineUsers), B \in RegisteredIds(onlineUsers) :
        A # B =>
          /\ CandidateFor(A, B) <=> RoomOf(B) = Null
          /\ (RoomOf(A) = Null /\ RoomOf(B) = Null) =>
                (CandidateFor(A, B) /\ CandidateFor(B, A))
          /\ (RoomOf(A) # Null /\ RoomOf(B) = Null) =>
                (CandidateFor(A, B) /\ ~CandidateFor(B, A))

\* one user is in the text chat and another is idle: eligibility goes one way
C31_Witness ==
    /\ \E A \in RegisteredIds(onlineUsers), B \in RegisteredIds(onlineUsers) :
          /\ RoomOf(A) = TEXT_CHAT
          /\ RoomOf(B) = Null
          /\ CandidateFor(A, B)
          /\ ~CandidateFor(B, A)

\* C32: a pairing join-room that finds no match leaves the requester registered
\* with no roomId, emits nothing and leaves every other entry, textChatUsers and
\* the rooms as they were, and it finds no match only when no other user is
\* idle; a pairing join-room made while another user is idle is matched with an
\* idle user, with the one idle user when there is just one: so the request
\* that follows a waiting user's, from any other socket, is matched, and two
\* users are never both left waiting.
C32_WaitingThenMatched ==
    [][ PairingJoinStep =>
          /\ last'.result \in {"waiting", "matched"}
          /\ last'.result = "waiting" =>
                /\ HasUser(onlineUsers', last'.id)
                /\ getUser(onlineUsers', last'.id).roomId = Null
                /\ out' = <<>>
                /\ Others(onlineUsers', last'.id) = Others(onlineUsers, last'.id)
                /\ UNCHANGED <<textChatUsers, rooms>>
                /\ \A i \in DOMAIN onlineUsers' :
                      onlineUsers'[i].id # last'.id => onlineUsers'[i].roomId # Null
          /\ OtherIdle(last'.id) # {} =>
                /\ last'.result = "matched"
                /\ \E i \in OtherIdle(last'.id) : onlineUsers[i].id = last'.matchId
          /\ ( /\ last.op = "join-room"
               /\ last.result = "waiting"
               /\ last.id # last'.id ) =>
                /\ last'.result = "matched"
                /\ last'.matchId = last.id ]_vars

\* a pairing join-room has just found no match although another user is
\* registered, and the requester waits with no roomId
C32_Witness ==
    /\ last.op = "join-room"
    /\ last.result = "waiting"
    /\ Len(onlineUsers) >= 2
    /\ RoomOf(last.id) = Null

\* the user-left events among evs, by index, that socketId receives
UserLeftTo(evs, socketId) ==
    { i \in DOMAIN evs : evs[i].ev = "user-left" /\ socketId \in evs[i].rcpts }

\* C33 as stated: when a leave-room clears the roomId of a user that held a pair
\* room, every peer of that room receives exactly one user-left from the same
\* handler, carrying the reason of the payload, 'disconnected' when it has none.
C33_Original ==
    [][ ( /\ last'.op = "leave-room"
          /\ IsPairRoom(last'.prevRoomId)
          /\ getUser(onlineUsers', last'.id).roomId = Null ) =>
          \A B \in last'.peers :
              /\ Cardinality(UserLeftTo(out', B)) = 1
              /\ \A i \in UserLeftTo(out', B) :
                    out'[i].reason = IF last'.reason # Null THEN last'.reason
                                     ELSE DISCONNECTED ]_vars

\* socketId and q are in one pair: by their roomId in the registry, or as
\* members of one pair room of the transport
SharesPairWith(socketId, q) ==
    \/ /\ HasUser(onlineUsers, socketId)
       /\ HasUser(onlineUsers, q)
       /\ IsPairRoom(RoomOf(q))
       /\ RoomOf(socketId) = RoomOf(q)
    \/ \E r \in PairRooms : socketId \in rooms[r] /\ q \in rooms[r]

\* C34 as stated: a user-left that carries a reason reaches q only from the
\* leave-room or the disconnect of a user that is in q's pair.
C34_Original ==
    [][ \A q \in Ids : \A i \in UserLeftTo(out', q) :
          out'[i].reason # Null =>
              /\ last'.op \in {"leave-room", "disconnect"}
              /\ SharesPairWith(last'.id, q) ]_vars

\* the user-left events among evs, by index, sent to the text chat
TextChatDepartures(evs) ==
    { i \in DOMAIN evs : evs[i].ev = "user-left" /\ evs[i].to = TEXT_CHAT }

\* C35 as stated: a disconnect emits a user-left to the text chat when the
\* user's roomId is 'text-chat', and no member of the text chat receives one
\* when it is not.
C35_Original ==
    [][ last'.op = "disconnect" =>
          /\ last'.prevRoomId = TEXT_CHAT => TextChatDepartures(out') # {}
          /\ last'.prevRoomId # TEXT_CHAT =>
                \A i \in TextChatDepartures(out') : out'[i].rcpts = {} ]_vars

(***************************************************************************)
(* validateInterests                                                       *)
(***************************************************************************)
\* the entries of items, by index, that are strings holding a character that is
\* not a blank
Kept(items) ==
    { i \in DOMAIN items :
        IsString(items[i]) /\ \E j \in DOMAIN items[i].str : ~IsSpace(items[i].str[j]) }

\* the k-th of the indices S, in ascending order
KthOf(S, k) == CHOOSE i \in S : Cardinality({ j \in S : j <= i }) = k

\* C36: for a list of at most MAX_INTERESTS entries validateInterests returns
\* valid with the entries that are strings holding text, each trimmed, in their
\* order, the other entries dropped; for no list it returns valid with the
\* empty list; what it returns has at most MAX_INTERESTS entries, none of them
\* empty or with a blank at either end.
C36_ValidInterests ==
    last.op = "validateInterests" =>
        /\ last.input.kind = "undefined" =>
              last.result.isValid /\ last.result.interests = <<>>
        /\ (last.input.kind = "array" /\ Len(last.input.items) <= MAX_INTERESTS) =>
              /\ last.result.isValid
              /\ Len(last.result.interests) = Cardinality(Kept(last.input.items))
              /\ \A k \in DOMAIN last.result.interests :
                    IsTrimOf(last.result.interests[k],
                             last.input.items[KthOf(Kept(last.input.items), k)].str)
        /\ Len(last.result.interests) <= MAX_INTERESTS
        /\ \A k \in DOMAIN last.result.interests :
              /\ last.result.interests[k] # <<>>
              /\ ~IsSpace(last.result.interests[k][1])
              /\ ~IsSpace(last.result.interests[k][Len(last.result.interests[k])])

\* a list of MAX_INTERESTS entries came back valid and shorter: padded texts
\* trimmed, blanks and numbers dropped
C36_Witness ==
    /\ last.op = "validateInterests"
    /\ last.input.kind = "array"
    /\ Len(last.input.items) = MAX_INTERESTS
    /\ last.result.isValid
    /\ Len(last.result.interests) \in 1..(MAX_INTERESTS - 1)
    /\ \A k \in DOMAIN last.result.interests : last.result.interests[k] = Music

(***************************************************************************)
(* Skip and search again; the payloads of match-found                      *)
(***************************************************************************)
\* the event handled last was a leave-room of a user that held a pair room
\* together with other users
LeftPairWithPeers ==
    /\ last.op = "leave-room"
    /\ IsPairRoom(last.prevRoomId)
    /\ last.peers # {}

MatchInterestInputs ==
    { Undefined, Arr(<<Str(PaddedMusic), Str(Blank), Num(7)>>), Arr(<<Str(Art)>>) }

MatchNext ==
    \/ \E socketId \in Ids : InRelayRun /\ Connection(socketId)
    \/ \E socketId \in Ids, roomId \in {Null, TEXT_CHAT}, interests \in MatchInterestInputs :
          InRelayRun /\ JoinRoom(socketId, [roomId |-> roomId, interests |-> interests])
    \/ \E socketId \in Ids : \E roomId \in RoomInputs(rooms, socketId) :
          \E reason \in ReasonInputs(roomId) :
          InRelayRun /\ LeaveRoom(socketId, [roomId |-> roomId, reason |-> reason])
    \/ \E socketId \in Ids : InRelayRun /\ Disconnect(socketId)

MatchSpec == Init /\ [][MatchNext]_vars

\* the interests a payload asks for, once validated: the strings of the list
\* that hold text, trimmed, in their order
IsValidatedOf(interests, payload) ==
    IF payload.kind # "array" THEN interests = <<>>
    ELSE /\ Len(interests) = Cardinality(Kept(payload.items))
         /\ \A k \in DOMAIN interests :
               IsTrimOf(interests[k], payload.items[KthOf(Kept(payload.items), k)].str)

C39_TextChatUsersRegistered ==
    [][ /\ textChatUsers' \subseteq RegisteredIds(onlineUsers')
        /\ \A socketId \in textChatUsers' \ textChatUsers :
              /\ last'.op = "join-room"
              /\ last'.id = socketId
              /\ HasUser(onlineUsers, socketId)
        /\ last'.op = "disconnect" =>
              /\ ~HasUser(onlineUsers', last'.id)
              /\ last'.id \notin textChatUsers'
        /\ last'.op # "disconnect" =>
              RegisteredIds(onlineUsers) \subseteq RegisteredIds(onlineUsers') ]_vars

\* a member of the text chat has just disconnected while another member stays
C39_Witness ==
    /\ last.op = "disconnect"
    /\ last.wasInTextChat
    /\ textChatUsers # {}
    /\ last.id \notin textChatUsers

(***************************************************************************)
(* The video chat page of the client: VideoChat and useWebRTC, run against *)
(* the server's handlers.  An event the page emits is handled by the       *)
(* server in the same step; the events the server emits to a socket wait   *)
(* in the inbox of its page, in emission order, until the page handles     *)
(* them.  The local media stream stays valid once the page has it.         *)
(***************************************************************************)
\* a run of video chat pages has the server handle MaxClientEvents events
MaxClientEvents == 9

InClientRun == steps < MaxClientEvents

\* the signals of a negotiation, told apart by signal.type
OFFER == "offer"
ANSWER == "answer"
CANDIDATE == "candidate"

\* the events the page listens to, with the fields its handlers read
PageEvents == {"match-found", "signal", "user-left"}

Payload(e) ==
    IF e.ev = "match-found"
    THEN [ev |-> e.ev, roomId |-> e.roomId, initiator |-> e.initiator]
    ELSE IF e.ev = "signal"
    THEN [ev |-> e.ev, signal |-> e.signal, userId |-> e.userId]
    ELSE [ev |-> e.ev, reason |-> e.reason]

\* the events of evs that reach the page of socket id, in order
RECURSIVE Inbound(_, _)
Inbound(evs, id) ==
    IF evs = <<>> THEN <<>>
    ELSE (IF Head(evs).ev \in PageEvents /\ id \in Head(evs).rcpts
          THEN << Payload(Head(evs)) >>
          ELSE <<>>) \o Inbound(Tail(evs), id)

Deliver(cl, evs) == [id \in DOMAIN cl |-> [cl[id] EXCEPT !.inbox = @ \o Inbound(evs, id)]]

\* useWebRTC.closePeer
closePeer(page) == [page EXCEPT !.pc = NoPc, !.isConnected = FALSE]

\* useWebRTC.createPeerConnection: the connection the page had is closed, the new
\* one is stable
createPeerConnection(page) == [page EXCEPT !.pc = STABLE]

\* peerConnectionRef.current || createPeerConnection()
CurrentPc(page) == IF page.pc = NoPc THEN createPeerConnection(page) ELSE page

\* the page has taken the event at the head of its inbox
TakeHead(page) == [page EXCEPT !.inbox = Tail(@)]

\* a handler of the page that emits nothing
Quiet(socketId, op) ==
    /\ out' = <<>>
    /\ last' = [op |-> op, id |-> socketId]
    /\ UNCHANGED <<onlineUsers, textChatUsers, rooms, used, steps, pending>>

\* socket.emit('signal', ...) by the page of socketId, whose state becomes page
EmitSignal(socketId, page, data) ==
    /\ HasUser(onlineUsers, socketId)
    /\ steps' = steps + 1
    /\ SignalHandler(socketId, data)
    /\ clients' = Deliver([clients EXCEPT ![socketId] = page], out')
    /\ UNCHANGED <<onlineUsers, textChatUsers, rooms, used, pending>>

\* VideoChat.startChat: isWaiting, then join-room with no room and the interests
\* typed (none)
startChat(socketId, page) ==
    /\ steps' = steps + 1
    /\ JoinRoomHandler(socketId, [roomId |-> Null, interests |-> Arr(<<>>)])
    /\ clients' = Deliver([clients EXCEPT ![socketId] =
                               [page EXCEPT !.isWaiting = TRUE]], out')
    /\ UNCHANGED pending

\* the socket of a page connects
PageConnect(socketId) ==
    /\ steps' = steps + 1
    /\ ConnectionHandler(socketId)
    /\ clients' = Deliver([id \in DOMAIN clients \cup {socketId} |->
                               IF id = socketId THEN NoPage ELSE clients[id]], out')
    /\ UNCHANGED pending

\* the Start Chat button, shown while not connected and enabled while not waiting
StartChat(socketId) ==
    /\ ~clients[socketId].isConnected
    /\ ~clients[socketId].isWaiting
    /\ clients[socketId].restart # RestartCall
    /\ startChat(socketId, clients[socketId])

\* the startChat call of skipChat or of the auto-search timer
SearchAgain(socketId) ==
    /\ clients[socketId].restart # NoRestart
    /\ startChat(socketId, [clients[socketId] EXCEPT !.restart = NoRestart])

\* VideoChat.skipChat, shown while connected: closePeer, leave-room with
\* roomIdRef.current and reason skip, then startChat
SkipChat(socketId) ==
    /\ clients[socketId].isConnected
    /\ steps' = steps + 1
    /\ LeaveRoomHandler(socketId, [roomId |-> clients[socketId].roomId, reason |-> SKIP])
    /\ clients' = Deliver([clients EXCEPT ![socketId] =
                               [closePeer(clients[socketId]) EXCEPT !.restart = RestartCall]],
                          out')
    /\ UNCHANGED pending

\* VideoChat.handleMatchFound: the initiator runs createOffer on the connection it
\* has or on a new one, and emits the offer once it is its local description
\* (setLocalDescription(offer) is rejected in have-remote-offer); the other peer
\* runs createPeerConnection
HandleMatchFound(socketId) ==
    /\ clients[socketId].inbox # <<>>
    /\ Head(clients[socketId].inbox).ev = "match-found"
    /\ LET m == Head(clients[socketId].inbox)
           page == [TakeHead(clients[socketId]) EXCEPT !.isWaiting = FALSE,
                                                       !.roomId = m.roomId]
       IN IF m.initiator /\ CurrentPc(page).pc # HAVE_REMOTE_OFFER
          THEN EmitSignal(socketId, [page EXCEPT !.pc = HAVE_LOCAL_OFFER],
                          [roomId |-> m.roomId, signal |-> OFFER])
          ELSE /\ clients' = [clients EXCEPT ![socketId] =
                                 IF m.initiator THEN page ELSE createPeerConnection(page)]
               /\ Quiet(socketId, "match-found")

\* useWebRTC.handleIceCandidate: a connection with a local description has found
\* a candidate, which goes out as a signal when roomIdRef.current is set
IceCandidate(socketId) ==
    /\ \/ clients[socketId].pc = HAVE_LOCAL_OFFER
       \/ clients[socketId].pc = STABLE /\ clients[socketId].isConnected
    /\ clients[socketId].roomId # Null
    /\ EmitSignal(socketId, clients[socketId],
                  [roomId |-> clients[socketId].roomId, signal |-> CANDIDATE])

\* useWebRTC.handleSignal up to the awaited setRemoteDescription: a connection is
\* created when there is none; an offer is applied in stable or have-local-offer,
\* an answer in have-local-offer, and the remote track that comes with the
\* description connects the page; a candidate changes no state of the
\* negotiation.  The browser applies an offer in have-local-offer by rolling
\* the local offer back, or rejects it.
HandleSignal(socketId) ==
    /\ clients[socketId].inbox # <<>>
    /\ Head(clients[socketId].inbox).ev = "signal"
    /\ LET data == Head(clients[socketId].inbox)
           page == TakeHead(clients[socketId])
           currentState == CurrentPc(page).pc
           applied == [page EXCEPT !.isConnected = TRUE, !.isWaiting = FALSE,
                                   !.pc = IF data.signal = OFFER THEN HAVE_REMOTE_OFFER
                                          ELSE STABLE]
       IN IF data.userId = socketId
          THEN clients' = [clients EXCEPT ![socketId] = page]
          ELSE IF data.signal = OFFER /\ currentState = STABLE
          THEN clients' = [clients EXCEPT ![socketId] = applied]
          ELSE IF data.signal = OFFER /\ currentState = HAVE_LOCAL_OFFER
          THEN \E rollback \in BOOLEAN :
                  clients' = [clients EXCEPT ![socketId] =
                                 IF rollback THEN applied ELSE CurrentPc(page)]
          ELSE IF data.signal = ANSWER /\ currentState = HAVE_LOCAL_OFFER
          THEN clients' = [clients EXCEPT ![socketId] = applied]
          ELSE clients' = [clients EXCEPT ![socketId] = CurrentPc(page)]
    /\ Quiet(socketId, "signal")

\* the rest of handleSignal for an offer: createAnswer, setLocalDescription(answer)
\* and the answer emitted with roomIdRef.current; the connection is the one the
\* offer was applied to, still open
SendAnswer(socketId) ==
    /\ clients[socketId].pc = HAVE_REMOTE_OFFER
    /\ EmitSignal(socketId, [clients[socketId] EXCEPT !.pc = STABLE],
                  [roomId |-> clients[socketId].roomId, signal |-> ANSWER])

\* VideoChat.handleUserLeft: closePeer, and startChat when the timer fires
HandleUserLeft(socketId) ==
    /\ clients[socketId].inbox # <<>>
    /\ Head(clients[socketId].inbox).ev = "user-left"
    /\ clients' = [clients EXCEPT ![socketId] =
                      [closePeer(TakeHead(clients[socketId])) EXCEPT !.restart = RestartTimer]]
    /\ Quiet(socketId, "user-left")

ClientNext ==
    \/ \E socketId \in Ids : InClientRun /\ PageConnect(socketId)
    \/ \E socketId \in DOMAIN clients : InClientRun /\ StartChat(socketId)
    \/ \E socketId \in DOMAIN clients : InClientRun /\ SearchAgain(socketId)
    \/ \E socketId \in DOMAIN clients : InClientRun /\ SkipChat(socketId)
    \/ \E socketId \in DOMAIN clients : InClientRun /\ HandleMatchFound(socketId)
    \/ \E socketId \in DOMAIN clients : InClientRun /\ HandleSignal(socketId)
    \/ \E socketId \in DOMAIN clients : InClientRun /\ SendAnswer(socketId)
    \/ \E socketId \in DOMAIN clients : InClientRun /\ IceCandidate(socketId)
    \/ \E socketId \in DOMAIN clients : InClientRun /\ HandleUserLeft(socketId)

ClientSpec == Init /\ [][ClientNext]_vars

\* the signal events of kind type among evs, by index
SignalsOf(evs, type) == { i \in DOMAIN evs : evs[i].ev = "signal" /\ evs[i].signal = type }

\* the page of socketId has the event ev at the head of its inbox
HeadIs(socketId, ev) ==
    /\ clients[socketId].inbox # <<>>
    /\ Head(clients[socketId].inbox).ev = ev

\* an offer goes out only as the page handles a match-found that names it initiator
OfferByInitiator ==
    \A i \in SignalsOf(out', OFFER) :
        /\ HeadIs(out'[i].userId, "match-found")
        /\ Head(clients[out'[i].userId].inbox).initiator

\* an answer goes out only from a page suspended on an offer it applied, and a page
\* gets there only by handling an offer of another socket
AnswerToOffer ==
    /\ \A i \in SignalsOf(out', ANSWER) :
          clients[out'[i].userId].pc = HAVE_REMOTE_OFFER
    /\ \A socketId \in DOMAIN clients :
          (clients'[socketId].pc = HAVE_REMOTE_OFFER /\ clients[socketId].pc # HAVE_REMOTE_OFFER) =>
              /\ HeadIs(socketId, "signal")
              /\ Head(clients[socketId].inbox).signal = OFFER
              /\ Head(clients[socketId].inbox).userId # socketId

\* a signal the page handles is applied (it changes the signaling state or connects
\* the page) only in the states the handler admits
AppliedInState ==
    \A socketId \in DOMAIN clients :
        (/\ HeadIs(socketId, "signal")
         /\ clients'[socketId].inbox = Tail(clients[socketId].inbox)
         /\ \/ clients'[socketId].pc \notin {clients[socketId].pc, STABLE}
            \/ clients'[socketId].pc # clients[socketId].pc /\ clients[socketId].pc # NoPc
            \/ clients'[socketId].isConnected # clients[socketId].isConnected) =>
            IF Head(clients[socketId].inbox).signal = ANSWER
            THEN clients[socketId].pc = HAVE_LOCAL_OFFER /\ clients'[socketId].pc = STABLE
            ELSE clients[socketId].pc \in {NoPc, STABLE, HAVE_LOCAL_OFFER}

\* the page of socketId has its offer out in the room of the page of peer and no
\* answer applied: it waits for the answer of peer
WaitsFor(socketId, peer) ==
    /\ clients[socketId].pc = HAVE_LOCAL_OFFER
    /\ clients[socketId].roomId # Null
    /\ clients[socketId].roomId = clients[peer].roomId

NoMutualWait ==
    \A socketId \in DOMAIN clients : \A peer \in DOMAIN clients \ {socketId} :
        ~(WaitsFor(socketId, peer) /\ WaitsFor(peer, socketId))

\* C40: in the negotiation that follows a match-found, an offer is emitted only
\* by a page handling a match-found with initiator = true, an answer only by a
\* page that applied an offer it received; an answer is applied only in
\* have-local-offer and an offer only in stable or have-local-offer; and no two
\* pages of one room are in have-local-offer at once, waiting for each other.
C40_Negotiation ==
    /\ [][OfferByInitiator /\ AnswerToOffer /\ AppliedInState]_vars
    /\ []NoMutualWait

\* the two pages of a pair room have completed a negotiation: the answer has just
\* been applied by the initiator
C40_Witness ==
    /\ last.op = "signal"
    /\ \E socketId \in DOMAIN clients : \E peer \in DOMAIN clients \ {socketId} :
          /\ clients[socketId].roomId = PairRoomId(socketId, peer)
          /\ clients[peer].roomId = PairRoomId(socketId, peer)
          /\ clients[socketId].pc = STABLE /\ clients[socketId].isConnected
          /\ clients[peer].pc = STABLE /\ clients[peer].isConnected
          /\ clients[socketId].inbox = <<>> /\ clients[peer].inbox = <<>>

====
